---- MODULE Spec2Model ----
(***************************************************************************)
(* Prompt editor (web/app/components/base/prompt-editor): the placeholder  *)
(* engine.  A document is a list of paragraphs of plain text runs and      *)
(* typed placeholder nodes; replacement plugins turn placeholder text into *)
(* nodes inside every transaction; commands insert and delete nodes; the   *)
(* editor-root plugin OnBlurBlock turns BLUR into a delayed escape.        *)
(*                                                                         *)
(* Text is a sequence of one-character strings, so that matching,          *)
(* splitting and joining are computed character by character.              *)
(***************************************************************************)
EXTENDS Integers, Sequences, FiniteSets, TLC

VARIABLES
    doc,        \* doc[e]: the committed document of editor e (paragraphs)
    sel,        \* sel[e]: the selection of editor e
    mounted,    \* mounted[e]: the plugins mounted on editor e
    props,      \* props[e]: which host callbacks editor e was given
    timers,     \* timers[e]: the pending timeouts set by editor e's plugins
    ref,        \* ref[e]: OnBlurBlock's ref.current (a timeout id, 0 = null)
    last,       \* the last command dispatched and what its handlers did
    hist        \* hist[e]: what happened since the last scheduling BLUR

vars == <<doc, sel, mounted, props, timers, ref, last, hist>>

----------------------------------------------------------------------------
(* Bounds of the model *)

MaxTimers == 2      \* timeout ids available to one editor
TickMs == 100       \* the clock advances in steps of TickMs
MaxElapsed == 500   \* elapsed time since a BLUR is tracked up to here

(* Program constants *)

HIDE_DELAY == 200   \* the escape follows the BLUR after 200 ms

Editors == {"instance-1", "instance-2"}

Min(a, b) == IF a <= b THEN a ELSE b

----------------------------------------------------------------------------
(* Text and the placeholder kinds *)

\* A text is a sequence of characters; a line break is the character "\n".
CONTEXT_PLACEHOLDER_TEXT ==
    <<"{", "{", "#", "c", "o", "n", "t", "e", "x", "t", "#", "}", "}">>

HISTORY_PLACEHOLDER_TEXT ==
    <<"{", "{", "#", "h", "i", "s", "t", "o", "r", "i", "e", "s", "#", "}", "}">>

QUERY_PLACEHOLDER_TEXT ==
    <<"{", "{", "#", "q", "u", "e", "r", "y", "#", "}", "}">>

REQUEST_URL_PLACEHOLDER_TEXT ==
    <<"{", "{", "#", "u", "r", "l", "#", "}", "}">>

CURRENT_PLACEHOLDER_TEXT ==
    <<"{", "{", "#", "c", "u", "r", "r", "e", "n", "t", "#", "}", "}">>

ERROR_MESSAGE_PLACEHOLDER_TEXT ==
    <<"{", "{", "#", "e", "r", "r", "o", "r", "_", "m", "e", "s", "s", "a", "g", "e", "#", "}", "}">>

LAST_RUN_PLACEHOLDER_TEXT ==
    <<"{", "{", "#", "l", "a", "s", "t", "_", "r", "u", "n", "#", "}", "}">>

\* The node classes: plain text runs, the fixed-token decorator blocks, the
\* human-input block, which carries a variable name, and the variable value
\* block, a text entity that keeps the text it was made from.
CustomTextNode == "CustomTextNode"
ContextBlockNode == "ContextBlockNode"
HistoryBlockNode == "HistoryBlockNode"
QueryBlockNode == "QueryBlockNode"
RequestURLBlockNode == "RequestURLBlockNode"
CurrentBlockNode == "CurrentBlockNode"
ErrorMessageBlockNode == "ErrorMessageBlockNode"
LastRunBlockNode == "LastRunBlockNode"
HITLInputNode == "HITLInputNode"
VariableValueBlockNode == "VariableValueBlockNode"

FixedKinds == {ContextBlockNode, HistoryBlockNode, QueryBlockNode,
               RequestURLBlockNode, CurrentBlockNode, ErrorMessageBlockNode,
               LastRunBlockNode}

DecoratorKinds == FixedKinds \cup {HITLInputNode}

\* The order in which the replacement plugins are mounted by the editor, which
\* is the order in which their transforms are registered.
KindOrder == <<ContextBlockNode, QueryBlockNode, HistoryBlockNode,
               RequestURLBlockNode, CurrentBlockNode, ErrorMessageBlockNode,
               LastRunBlockNode, HITLInputNode, VariableValueBlockNode>>

Kinds == {KindOrder[i] : i \in 1..Len(KindOrder)}

PlaceholderTextTypo(kind) ==
    CASE kind = ContextBlockNode -> CONTEXT_PLACEHOLDER_TEXT
      [] kind = HistoryBlockNode -> <<"{", "{", "#", "h", "i", "s", "t", "o", "r", "y", "#", "}", "}">>
      [] kind = QueryBlockNode -> QUERY_PLACEHOLDER_TEXT
      [] kind = RequestURLBlockNode -> REQUEST_URL_PLACEHOLDER_TEXT
      [] kind = CurrentBlockNode -> CURRENT_PLACEHOLDER_TEXT
      [] kind = ErrorMessageBlockNode -> ERROR_MESSAGE_PLACEHOLDER_TEXT
      [] kind = LastRunBlockNode -> LAST_RUN_PLACEHOLDER_TEXT

PlaceholderText(kind) ==
    CASE kind = ContextBlockNode -> CONTEXT_PLACEHOLDER_TEXT
      [] kind = HistoryBlockNode -> HISTORY_PLACEHOLDER_TEXT
      [] kind = QueryBlockNode -> QUERY_PLACEHOLDER_TEXT
      [] kind = RequestURLBlockNode -> REQUEST_URL_PLACEHOLDER_TEXT
      [] kind = CurrentBlockNode -> CURRENT_PLACEHOLDER_TEXT
      [] kind = ErrorMessageBlockNode -> ERROR_MESSAGE_PLACEHOLDER_TEXT
      [] kind = LastRunBlockNode -> LAST_RUN_PLACEHOLDER_TEXT

\* The human-input token is {{#$output.<name>#}}, the variable value token
\* is {{<name>}}; a name starts with a letter or an underscore and goes on
\* with letters, digits and underscores.
HITL_PREFIX == <<"{", "{", "#", "$", "o", "u", "t", "p", "u", "t", ".">>

HITL_SUFFIX == <<"#", "}", "}">>

VAR_OPEN == <<"{", "{">>

VAR_CLOSE == <<"}", "}">>

Letters == {"a", "b", "c", "d", "e", "f", "g", "h", "i", "j", "k", "l", "m",
            "n", "o", "p", "q", "r", "s", "t", "u", "v", "w", "x", "y", "z"}

Digits == {"0", "1", "2", "3", "4", "5", "6", "7", "8", "9"}

IsNameStart(c) == c \in Letters \cup {"_"}

IsNameChar(c) == c \in Letters \cup Digits \cup {"_"}

\* text.slice(from, to), with offsets counted from 0 and `to` exclusive.
Slice(text, from, to) == SubSeq(text, from + 1, to)

StartsWithAt(text, piece, at) ==
    /\ at + Len(piece) <= Len(text)
    /\ \A i \in 1..Len(piece) : text[at + i] = piece[i]

\* text.indexOf(piece): the first offset at which piece occurs, or -1.
IndexOf(text, piece) ==
    LET hits == {at \in 0..Len(text) : StartsWithAt(text, piece, at)}
    IN  IF hits = {} THEN -1
        ELSE CHOOSE at \in hits : \A other \in hits : at <= other

\* The end of the longest name that starts at offset `at` (at when there is
\* none).
RECURSIVE NameEnd(_, _)
NameEnd(text, at) ==
    IF at < Len(text) /\ IsNameChar(text[at + 1])
       THEN NameEnd(text, at + 1)
       ELSE at

\* A token open <name> close starts at offset `at`: its end offset, or -1.
TokenEndAt(text, at, open, close) ==
    IF ~StartsWithAt(text, open, at) THEN -1
    ELSE LET from == at + Len(open)
             to == NameEnd(text, from)
         IN  IF /\ to > from
                /\ IsNameStart(text[from + 1])
                /\ StartsWithAt(text, close, to)
                THEN to + Len(close)
                ELSE -1

NoMatch == [start |-> -1, end |-> -1]

TokenMatch(text, open, close) ==
    LET hits == {at \in 0..Len(text) : TokenEndAt(text, at, open, close) # -1}
    IN  IF hits = {} THEN NoMatch
        ELSE LET at == CHOOSE h \in hits : \A other \in hits : h <= other
             IN  [start |-> at, end |-> TokenEndAt(text, at, open, close)]

\* getMatch of the replacement plugin of a kind: the offsets of the first
\* occurrence of the kind's token in the text, or no match.
GetMatchPartial(kind, text) ==
    IF kind \in FixedKinds
       THEN LET opening == SubSeq(PlaceholderText(kind), 1, 9)
                at == IndexOf(text, opening)
            IN  IF at = -1 THEN NoMatch
                ELSE [start |-> at, end |-> at + Len(opening)]
    ELSE IF kind = HITLInputNode
       THEN TokenMatch(text, HITL_PREFIX, HITL_SUFFIX)
       ELSE TokenMatch(text, VAR_OPEN, VAR_CLOSE)

GetMatch(kind, text) ==
    IF kind \in FixedKinds
       THEN LET at == IndexOf(text, PlaceholderText(kind))
            IN  IF at = -1 THEN NoMatch
                ELSE [start |-> at, end |-> at + Len(PlaceholderText(kind))]
    ELSE IF kind = HITLInputNode
       THEN TokenMatch(text, HITL_PREFIX, HITL_SUFFIX)
       ELSE TokenMatch(text, VAR_OPEN, VAR_CLOSE)

----------------------------------------------------------------------------
(* Nodes, documents and the transforms of the replacement plugins *)

\* The data a host passes to the plugins of an editor and that the nodes made
\* by them carry: the list of datasets of a context block (and likewise the
\* role names of a history block, the generator type of a current block, the
\* variables of a human-input block), here a list of dataset ids.
NoData == <<>>

Payloads == {NoData, <<"1">>}

PayloadKinds == {ContextBlockNode, HistoryBlockNode, CurrentBlockNode,
                 HITLInputNode}

\* A node: its class, the text of a text run or of a variable value block,
\* the variable name of a human-input block, the data it carries, and the
\* bitmask of its text format (0: plain).
FormattedText(text, format) ==
    [type |-> CustomTextNode, text |-> text, name |-> <<>>, data |-> NoData,
     format |-> format]

TextNode(text) ==
    [type |-> CustomTextNode, text |-> text, name |-> <<>>, data |-> NoData, format |-> 0]

\* createNode of the replacement plugin of a kind, given the text node that
\* holds the matched text and the data the plugin was given.
CreateNodeNoData(kind, matched, data) ==
    IF kind \in FixedKinds
       THEN [type |-> kind, text |-> <<>>, name |-> <<>>, data |-> NoData, format |-> 0]
    ELSE IF kind = HITLInputNode
       THEN [type |-> kind, text |-> <<>>,
             name |-> Slice(matched, Len(HITL_PREFIX),
                            Len(matched) - Len(HITL_SUFFIX)),
             data |-> NoData, format |-> 0]
       ELSE [type |-> kind, text |-> matched, name |-> <<>>, data |-> NoData, format |-> 0]

CreateNode(kind, matched, data) ==
    LET carried == IF kind \in PayloadKinds THEN data ELSE NoData
    IN  IF kind \in FixedKinds
           THEN [type |-> kind, text |-> <<>>, name |-> <<>>, data |-> carried, format |-> 0]
        ELSE IF kind = HITLInputNode
           THEN [type |-> kind, text |-> <<>>,
                 name |-> Slice(matched, Len(HITL_PREFIX),
                                Len(matched) - Len(HITL_SUFFIX)),
                 data |-> carried, format |-> 0]
           ELSE [type |-> kind, text |-> matched, name |-> <<>>, data |-> carried, format |-> 0]

\* node.getTextContent()
GetTextContentTypo(node) ==
    IF node.type \in FixedKinds THEN PlaceholderTextTypo(node.type)
    ELSE IF node.type = HITLInputNode
       THEN HITL_PREFIX \o node.name \o HITL_SUFFIX
       ELSE node.text

GetTextContent(node) ==
    IF node.type \in FixedKinds THEN PlaceholderText(node.type)
    ELSE IF node.type = HITLInputNode
       THEN HITL_PREFIX \o node.name \o HITL_SUFFIX
       ELSE node.text

\* node.isInline(): every node stands in the text flow of a paragraph.
\* node.isIsolated() and node.isTopLevel(): true of the human-input block.
IsInline(node) == TRUE

IsIsolated(node) == node.type = HITLInputNode

IsTopLevel(node) == node.type = HITLInputNode

\* node.isSimpleText(): only plain text runs are open to the transforms.
IsSimpleTextAlways(node) == TRUE

IsSimpleTextOrFixed(node) == node.type \in {CustomTextNode} \cup FixedKinds

IsSimpleText(node) == node.type = CustomTextNode

\* The lines of a text: text.split('\n').
RECURSIVE SplitLines(_)
SplitLines(text) ==
    LET at == IndexOf(text, <<"\n">>)
    IN  IF at = -1 THEN <<text>>
        ELSE <<Slice(text, 0, at)>> \o SplitLines(Slice(text, at + 1, Len(text)))

\* textToEditorState(text): one paragraph per line, each with one text run.
TextToEditorState(text) ==
    LET lines == SplitLines(text)
    IN  [i \in 1..Len(lines) |-> <<TextNode(lines[i])>>]

\* The members of the sequences of a sequence, one after another.
RECURSIVE Flatten(_)
Flatten(seqs) ==
    IF seqs = <<>> THEN <<>> ELSE Head(seqs) \o Flatten(Tail(seqs))

\* The text of a paragraph: the text contents of its nodes, one after another.
RECURSIVE ParagraphText(_)
ParagraphText(nodes) ==
    IF nodes = <<>> THEN <<>>
    ELSE GetTextContent(Head(nodes)) \o ParagraphText(Tail(nodes))

\* The text the editor reports to the host: the paragraphs' texts joined by
\* a line break.
RECURSIVE JoinLines(_)
JoinLines(paragraphs) ==
    IF Len(paragraphs) = 0 THEN <<>>
    ELSE IF Len(paragraphs) = 1 THEN ParagraphText(paragraphs[1])
    ELSE ParagraphText(Head(paragraphs)) \o <<"\n">> \o JoinLines(Tail(paragraphs))

RootTextNoBreak(d) == ParagraphText(Flatten(d))

RootText(d) == JoinLines(d)

\* handleEditorChange, the onChange of the OnChangePlugin: the text contents of
\* the root's children joined by a line break.  It is called with the state an
\* update has committed, and gives the text to the host's onChange; the calls
\* of the host's onChange an update brings, given the document before and the
\* document committed.
OnChangeText(d) == JoinLines(d)

OnChangeCallsStale(before, committed) == <<OnChangeText(before)>>

OnChangeCalls(before, committed) == <<OnChangeText(committed)>>

\* The first kind, in the order of registration, whose matcher finds its
\* token in the text (0 when none does).
FirstMatching(text) ==
    LET hits == {i \in 1..Len(KindOrder) : GetMatch(KindOrder[i], text) # NoMatch}
    IN  IF hits = {} THEN 0
        ELSE CHOOSE i \in hits : \A other \in hits : i <= other

\* The transforms on one node, run until no matcher matches.  A node that is
\* not a plain text run is left alone.  A plain text run in which a kind
\* matches is split at the match into the text before, the matched text and
\* the text after; the matched piece is replaced by the node the kind's
\* factory makes of it, and the pieces around it are transformed in turn.
\* The result lists the pieces: the node, whether the matchers were called
\* with its text, and for a node the factory made, the text it was made
\* from.
Piece(node) ==
    [node |-> node, created |-> FALSE, matched |-> <<>>, scanned |-> FALSE]

Scanned(node) == [Piece(node) EXCEPT !.scanned = TRUE]

TransformNodeOnce(node, data) ==
    IF ~IsSimpleText(node) THEN <<Piece(node)>>
    ELSE LET text == GetTextContent(node)
             i == FirstMatching(text)
         IN  IF i = 0 THEN <<Scanned(node)>>
             ELSE LET kind == KindOrder[i]
                      m == GetMatch(kind, text)
                      before == Slice(text, 0, m.start)
                      matched == Slice(text, m.start, m.end)
                      after == Slice(text, m.end, Len(text))
                  IN  (IF before = <<>> THEN <<>>
                       ELSE <<Scanned(FormattedText(before, node.format))>>)
                      \o <<[node |-> CreateNode(kind, matched, data),
                            created |-> TRUE, matched |-> matched,
                            scanned |-> TRUE]>>
                      \o (IF after = <<>> THEN <<>>
                          ELSE <<Scanned(FormattedText(after, node.format))>>)

RECURSIVE TransformNode(_, _)
TransformNode(node, data) ==
    IF ~IsSimpleText(node) THEN <<Piece(node)>>
    ELSE LET text == GetTextContent(node)
             i == FirstMatching(text)
         IN  IF i = 0 THEN <<Scanned(node)>>
             ELSE LET kind == KindOrder[i]
                      m == GetMatch(kind, text)
                      before == Slice(text, 0, m.start)
                      matched == Slice(text, m.start, m.end)
                      after == Slice(text, m.end, Len(text))
                  IN  (IF before = <<>> THEN <<>>
                       ELSE TransformNode(FormattedText(before, node.format),
                                          data))
                      \o <<[node |-> CreateNode(kind, matched, data),
                            created |-> TRUE, matched |-> matched,
                            scanned |-> TRUE]>>
                      \o (IF after = <<>> THEN <<>>
                          ELSE TransformNode(FormattedText(after, node.format),
                                             data))

RECURSIVE TransformNodes(_, _)
TransformNodes(nodes, data) ==
    IF nodes = <<>> THEN <<>>
    ELSE TransformNode(Head(nodes), data) \o TransformNodes(Tail(nodes), data)

\* The pieces of every paragraph of a document after the transforms.
TransformPieces(d, data) == [i \in 1..Len(d) |-> TransformNodes(d[i], data)]

\* The document the pieces make up, and the nodes the factories made.
DocOf(pieces) ==
    [i \in 1..Len(pieces) |->
        [j \in 1..Len(pieces[i]) |-> pieces[i][j].node]]

MadeIn(pieces) == SelectSeq(Flatten(pieces), LAMBDA piece : piece.created)

Transformed(d, data) == DocOf(TransformPieces(d, data))

Replacements(d, data) == MadeIn(TransformPieces(d, data))

\* $getNodes by class: how many nodes of a kind a document holds.
NodesOfKind(d, kind) ==
    SelectSeq(Flatten(d), LAMBDA node : node.type = kind)

GetNodeCount(d, kind) == Len(NodesOfKind(d, kind))

----------------------------------------------------------------------------
(* Commands and the editor-root plugin OnBlurBlock *)

BLUR_COMMAND == "BLUR_COMMAND"
FOCUS_COMMAND == "FOCUS_COMMAND"
KEY_ESCAPE_COMMAND == "KEY_ESCAPE_COMMAND"
CLEAR_HIDE_MENU_TIMEOUT == "CLEAR_HIDE_MENU_TIMEOUT"

OnBlurBlock == "OnBlurBlock"

\* The related targets of a blur event: none, an ordinary element, and the
\* variable search input, which carries the internal-search marker.
RelatedTargets == {"null", "button", "var-search-input"}

IsVarSearchInput(target) == target = "var-search-input"

\* last: the command, the editor it was dispatched on, the related target of
\* a blur, whether a handler was registered for it, what dispatchCommand
\* returned, whether the host had given onBlur, how often the handler called
\* onBlur and onFocus, and whether it set the timeout.
\* For an operation on the document it holds the operation, the text given,
\* the document before, the nodes the factories made and how often onInsert
\* and onDelete were called and how many nodes were removed.
\* For an insert command it also holds the index the node was inserted at, the
\* caret after it, and the kind of the insert command before it when that one
\* had left the caret at the end of the document; for a mount that failed,
\* the error thrown; for a key, whether the default was prevented and how
\* many nodes a controller and the editor's default deletion removed; for an
\* event of the emitter, how often the clear command was dispatched and the
\* subscriptions of the addressed editor that acted on it (invoked); for a
\* dispatch on the command bus, the handlers called, in the order of the calls.
\* For a step that commits an update it holds the texts the host's onChange
\* was called with.
\* For a step on a serialized node it holds the object the node was made
\* from (json) and the node (node).
\* For a blur it holds how many pending timeouts the handler cleared before
\* it set its own (cleared).
NoLast == [editor |-> "", command |-> "", target |-> "",
           registered |-> FALSE, handled |-> FALSE,
           hasOnBlur |-> FALSE, onBlur |-> 0, onFocus |-> 0,
           scheduled |-> FALSE,
           input |-> <<>>, before |-> <<<<>>>>, made |-> <<>>,
           onInsert |-> 0, onDelete |-> 0, removed |-> 0, kind |-> "",
           at |-> 0, caret |-> 0, prev |-> "", error |-> <<>>,
           prevented |-> FALSE, byController |-> 0, byDefault |-> 0,
           clear |-> 0, invoked |-> <<>>, change |-> <<>>,
           json |-> <<>>, node |-> <<>>, cleared |-> 0]

\* hist[e], kept for the properties only:
\*   sinceBlur     time since the last BLUR that set the timeout (-1: none)
\*   escSince      escape commands dispatched since that BLUR
\*   cut           a clear command or a teardown came after that BLUR
\*   clearedEarly  a clear command came while that BLUR's timeout was pending
\*   tornEarly     a teardown came while that BLUR's timeout was pending
\*   staleEsc      escape commands dispatched while the plugin was unmounted
\*   sinceSearch   time since the last BLUR to the search input that found no
\*                 timeout pending (-1: none, or a later BLUR set a timeout)
\*   escSearch     escape commands dispatched since that BLUR
\*   torn          the command plugins that were mounted and then torn down
\*   edits         the edits of the text made so far
NoHist == [sinceBlur |-> -1, escSince |-> 0, cut |-> FALSE,
           clearedEarly |-> FALSE, tornEarly |-> FALSE, staleEsc |-> 0,
           sinceSearch |-> -1, escSearch |-> 0, torn |-> {}, edits |-> 0]

\* The ids of a set of pending timeouts, and the first id that is free.
TimerIds(ts) == {t.id : t \in ts}

FreshTimerId(ts) == CHOOSE i \in 1..MaxTimers :
                        /\ i \notin TimerIds(ts)
                        /\ \A j \in 1..(i - 1) : j \in TimerIds(ts)

\* clearTimeout(r) on the pending timeouts ts.
ClearedTimersNoop(ts, r) == ts

ClearedTimers(ts, r) == {t \in ts : t.id # r}

\* setTimeout(() => editor.dispatchCommand(KEY_ESCAPE_COMMAND, ...), delay)
NewHideTimerNoDelay(id) == [id |-> id, left |-> 0]

NewHideTimer(id) == [id |-> id, left |-> HIDE_DELAY]

\* What a dispatch starts from: the command, the editor and, for a blur, the
\* related target of the event.
Dispatched(e, command, target) ==
    [NoLast EXCEPT !.editor = e, !.command = command, !.target = target,
                   !.registered = OnBlurBlock \in mounted[e]]

\* editor.dispatchCommand(BLUR_COMMAND, event).  The handler looks at the
\* related target: for the variable search input it does nothing; otherwise
\* it clears the pending timeout, sets a new one that dispatches the escape
\* command after HIDE_DELAY, and calls onBlur when the host gave one.  It
\* reports the command handled either way.  Without the plugin no handler is
\* registered and the dispatch reports unhandled.
BlurSchedulesAnyTarget(e, target) == OnBlurBlock \in mounted[e]

BlurSchedulesSearchOnly(e, target) ==
    /\ OnBlurBlock \in mounted[e]
    /\ IsVarSearchInput(target)

BlurSchedules(e, target) ==
    /\ OnBlurBlock \in mounted[e]
    /\ ~IsVarSearchInput(target)

\* The timeouts the BLUR handler keeps when it sets a new one: the pending
\* one is cleared first, so that one delayed escape is pending at most.
BlurKeptTimersAll(e) == timers[e]

BlurKeptTimers(e) == ClearedTimers(timers[e], ref[e])

DispatchBlur(e, target) ==
    /\ last' = [Dispatched(e, BLUR_COMMAND, target) EXCEPT
                  !.handled = OnBlurBlock \in mounted[e],
                  !.scheduled = BlurSchedules(e, target),
                  !.hasOnBlur = props[e].onBlur,
                  !.onBlur = IF BlurSchedules(e, target) /\ props[e].onBlur
                             THEN 1 ELSE 0,
                  !.cleared = IF BlurSchedules(e, target)
                              THEN Cardinality(timers[e] \ BlurKeptTimers(e))
                              ELSE 0]
    /\ IF BlurSchedules(e, target)
          THEN LET kept == BlurKeptTimers(e)
                   id == FreshTimerId(kept)
               IN  /\ Cardinality(kept) < MaxTimers
                   /\ timers' = [timers EXCEPT ![e] = kept \cup {NewHideTimer(id)}]
                   /\ ref' = [ref EXCEPT ![e] = id]
                   /\ hist' = [hist EXCEPT ![e] =
                                 [NoHist EXCEPT !.sinceBlur = 0,
                                                !.staleEsc = hist[e].staleEsc]]
          ELSE /\ UNCHANGED <<timers, ref>>
               /\ hist' = IF OnBlurBlock \in mounted[e] /\ timers[e] = {}
                             THEN [hist EXCEPT ![e].sinceSearch = 0,
                                               ![e].escSearch = 0]
                             ELSE hist
    /\ UNCHANGED <<doc, sel, mounted, props>>

\* editor.dispatchCommand(FOCUS_COMMAND, event): onFocus when given, handled.
DispatchFocusClears(e) ==
    /\ last' = [Dispatched(e, FOCUS_COMMAND, "null") EXCEPT
                  !.handled = OnBlurBlock \in mounted[e],
                  !.onFocus = IF OnBlurBlock \in mounted[e] /\ props[e].onFocus
                              THEN 1 ELSE 0]
    /\ timers' = [timers EXCEPT ![e] = ClearedTimers(timers[e], ref[e])]
    /\ UNCHANGED <<doc, sel, mounted, props, ref, hist>>

DispatchFocus(e) ==
    /\ last' = [Dispatched(e, FOCUS_COMMAND, "null") EXCEPT
                  !.handled = OnBlurBlock \in mounted[e],
                  !.onFocus = IF OnBlurBlock \in mounted[e] /\ props[e].onFocus
                              THEN 1 ELSE 0]
    /\ UNCHANGED <<doc, sel, mounted, props, timers, ref, hist>>

\* editor.dispatchCommand(CLEAR_HIDE_MENU_TIMEOUT): the pending timeout is
\* cleared and the command handled.
HideTimerPending(e) == \E t \in timers[e] : t.id = ref[e]

\* clearHideMenuTimeout: if (ref.current) { clearTimeout(ref.current);
\* ref.current = null }
ClearHideMenuTimeoutOfAll(e) ==
    /\ timers' = [other \in Editors |-> {}]
    /\ ref' = [other \in Editors |-> 0]

ClearHideMenuTimeout(e) ==
    /\ timers' = [timers EXCEPT ![e] = ClearedTimers(timers[e], ref[e])]
    /\ ref' = [ref EXCEPT ![e] = 0]

DispatchClear(e) ==
    /\ last' = [Dispatched(e, CLEAR_HIDE_MENU_TIMEOUT, "null") EXCEPT
                  !.handled = OnBlurBlock \in mounted[e]]
    /\ IF OnBlurBlock \in mounted[e]
          THEN /\ ClearHideMenuTimeout(e)
               /\ hist' = [hist EXCEPT ![e].cut = TRUE,
                                       ![e].clearedEarly = @ \/ HideTimerPending(e)]
          ELSE UNCHANGED <<timers, ref, hist>>
    /\ UNCHANGED <<doc, sel, mounted, props>>

\* The plugin's effect cleanup: the pending timeout is cleared and the three
\* commands are unregistered.
CleanupHideTimerMissing(e) == UNCHANGED <<timers, ref>>

CleanupHideTimer(e) == ClearHideMenuTimeout(e)

UnmountOnBlurBlock(e) ==
    /\ OnBlurBlock \in mounted[e]
    /\ mounted' = [mounted EXCEPT ![e] = @ \ {OnBlurBlock}]
    /\ CleanupHideTimer(e)
    /\ hist' = [hist EXCEPT ![e].cut = TRUE,
                            ![e].tornEarly = @ \/ HideTimerPending(e)]
    /\ UNCHANGED <<doc, sel, props, last>>

\* The plugin is mounted (again), with the callbacks the host passes now.
MountOnBlurBlock(e, onBlur, onFocus) ==
    /\ OnBlurBlock \notin mounted[e]
    /\ mounted' = [mounted EXCEPT ![e] = @ \cup {OnBlurBlock}]
    /\ props' = [props EXCEPT ![e].onBlur = onBlur, ![e].onFocus = onFocus]
    /\ ref' = [ref EXCEPT ![e] = 0]
    /\ UNCHANGED <<doc, sel, timers, last, hist>>

\* The clock advances by TickMs; every timeout that is due runs its callback,
\* editor.dispatchCommand(KEY_ESCAPE_COMMAND, ...), on the editor that set it.
DueTimers(e) == {t \in timers[e] : t.left <= TickMs}

AdvanceTimers ==
    /\ timers' = [e \in Editors |->
                    {[t EXCEPT !.left = @ - TickMs] : t \in timers[e] \ DueTimers(e)}]
    /\ hist' = [e \in Editors |->
                  [hist[e] EXCEPT
                     !.sinceBlur = IF @ < 0 THEN @ ELSE Min(@ + TickMs, MaxElapsed),
                     !.escSince = @ + Cardinality(DueTimers(e)),
                     !.staleEsc = IF OnBlurBlock \in mounted[e] THEN @
                                  ELSE @ + Cardinality(DueTimers(e)),
                     !.sinceSearch = IF @ < 0 THEN @ ELSE Min(@ + TickMs, MaxElapsed),
                     !.escSearch = @ + Cardinality(DueTimers(e))]]
    /\ \E e \in Editors : \/ hist[e].sinceBlur \in 0..(MaxElapsed - 1)
                           \/ hist[e].sinceSearch \in 0..(MaxElapsed - 1)
    /\ UNCHANGED <<doc, sel, mounted, props, ref, last>>

----------------------------------------------------------------------------
(* The editor-root plugin alone: the commands are dispatched on one editor *)
(* of the page while the other one stays idle.                             *)

BlurEditors == {"instance-1"}

EmptyDoc == <<<<>>>>

\* sel[e]: no selection, a node selection of the node at a position, or a
\* range selection that encloses the node at a position; a position is
\* <<paragraph, index>>.
NoSelection == [type |-> "none", at |-> <<0, 0>>]

InitBlur ==
    /\ doc = [e \in Editors |-> EmptyDoc]
    /\ sel = [e \in Editors |-> NoSelection]
    /\ mounted = [e \in Editors |-> {OnBlurBlock}]
    /\ props = [e \in Editors |-> [onBlur |-> TRUE, onFocus |-> TRUE, value |-> <<>>,
                     data |-> NoData]]
    /\ timers = [e \in Editors |-> {}]
    /\ ref = [e \in Editors |-> 0]
    /\ last = NoLast
    /\ hist = [e \in Editors |-> NoHist]

NextBlur ==
    \/ \E e \in BlurEditors, target \in RelatedTargets : DispatchBlur(e, target)
    \/ \E e \in BlurEditors : DispatchFocus(e)
    \/ \E e \in BlurEditors : DispatchClear(e)
    \/ \E e \in BlurEditors : UnmountOnBlurBlock(e)
    \/ \E e \in BlurEditors, onBlur \in BOOLEAN, onFocus \in BOOLEAN :
          MountOnBlurBlock(e, onBlur, onFocus)
    \/ AdvanceTimers

SpecBlur == InitBlur /\ [][NextBlur]_vars

----------------------------------------------------------------------------
(* Loading a value: the editor is given a placeholder-tagged text, builds   *)
(* its initial state from it, and the transforms of the replacement plugins *)
(* materialise the placeholders.                                            *)

MaxSegs == 3        \* a value is made of up to MaxSegs segments

\* The segments values are made of: plain characters, a line break, the
\* token of every kind, a token cut short and its missing end, and an
\* opening brace.
Segments ==
    << <<"a">>, <<"\n">>,
       CONTEXT_PLACEHOLDER_TEXT, HISTORY_PLACEHOLDER_TEXT,
       QUERY_PLACEHOLDER_TEXT, REQUEST_URL_PLACEHOLDER_TEXT,
       CURRENT_PLACEHOLDER_TEXT, ERROR_MESSAGE_PLACEHOLDER_TEXT,
       LAST_RUN_PLACEHOLDER_TEXT,
       <<"{", "{", "#", "$", "o", "u", "t", "p", "u", "t", ".", "u", "_", "1", "#", "}", "}">>,
       <<"{", "{", "v", "_", "1", "}", "}">>,
       <<"{", "{", "#", "c", "o", "n", "t", "e", "x">>,
       <<"t", "#", "}", "}">>,
       <<"{">> >>

RECURSIVE TextsOf(_)
TextsOf(n) ==
    IF n = 0 THEN {<<>>}
    ELSE LET shorter == TextsOf(n - 1)
         IN  shorter \cup {t \o Segments[i] : t \in shorter, i \in 1..Len(Segments)}

Texts == TextsOf(MaxSegs)

LOAD == "load"
RERUN == "rerun"

\* How often the replacement plugins call onInsert for the nodes made: once
\* for every node a decorator kind's factory made.
OnInsertCallsOnce(made) ==
    IF SelectSeq(made, LAMBDA piece : piece.node.type \in DecoratorKinds) = <<>>
       THEN 0 ELSE 1

OnInsertCalls(made) ==
    Len(SelectSeq(made, LAMBDA piece : piece.node.type \in DecoratorKinds))

\* The editor is mounted with props[e].value: the initial editor state is
\* textToEditorState(value), and the transforms run on it before the first
\* commit.
LoadValue(e) ==
    /\ last.command = ""
    /\ \E initial \in {TextToEditorState(props[e].value)} :
       \E pieces \in {TransformPieces(initial, props[e].data)} :
       \E made \in {MadeIn(pieces)} :
          /\ doc' = [doc EXCEPT ![e] = DocOf(pieces)]
          /\ last' = [NoLast EXCEPT !.editor = e, !.command = LOAD,
                                    !.input = props[e].value,
                                    !.before = initial,
                                    !.made = made,
                                    !.onInsert = OnInsertCalls(made),
                                    !.change = OnChangeCalls(doc[e], doc'[e])]
    /\ UNCHANGED <<sel, mounted, props, timers, ref, hist>>

\* An update marks every node of the document dirty, so that the transforms
\* run on all of them again before the commit.
RerunTransforms(e) ==
    /\ last.command = LOAD
    /\ last.editor = e
    /\ \E pieces \in {TransformPieces(doc[e], props[e].data)} :
       \E made \in {MadeIn(pieces)} :
          /\ doc' = [doc EXCEPT ![e] = DocOf(pieces)]
          /\ last' = [NoLast EXCEPT !.editor = e, !.command = RERUN,
                                    !.input = last.input,
                                    !.before = doc[e],
                                    !.made = made,
                                    !.onInsert = OnInsertCalls(made),
                                    !.change = OnChangeCalls(doc[e], doc'[e])]
    /\ UNCHANGED <<sel, mounted, props, timers, ref, hist>>

InitLoad ==
    /\ doc = [e \in Editors |-> EmptyDoc]
    /\ sel = [e \in Editors |-> NoSelection]
    /\ mounted = [e \in Editors |-> {OnBlurBlock}]
    /\ \E value \in Texts :
          props = [e \in Editors |->
                     [onBlur |-> TRUE, onFocus |-> TRUE,
                      value |-> IF e \in BlurEditors THEN value ELSE <<>>,
                      data |-> NoData]]
    /\ timers = [e \in Editors |-> {}]
    /\ ref = [e \in Editors |-> 0]
    /\ last = NoLast
    /\ hist = [e \in Editors |-> NoHist]

NextLoad ==
    \/ \E e \in BlurEditors : LoadValue(e)
    \/ \E e \in BlurEditors : RerunTransforms(e)

SpecLoad == InitLoad /\ [][NextLoad]_vars

----------------------------------------------------------------------------
(* Selecting and deleting nodes: the controller useSelectOrDelete that the  *)
(* component of every decorator node binds, with the node's key and the     *)
(* delete command of the node's kind.                                       *)

MaxEditSegs == 3    \* a document to edit is made of up to MaxEditSegs segments

EditSegments == << <<"a">>, CONTEXT_PLACEHOLDER_TEXT, QUERY_PLACEHOLDER_TEXT >>

RECURSIVE EditTextsOf(_)
EditTextsOf(n) ==
    IF n = 0 THEN {<<>>}
    ELSE LET shorter == EditTextsOf(n - 1)
         IN  shorter \cup {t \o EditSegments[i] :
                              t \in shorter, i \in 1..Len(EditSegments)}

EditTexts == EditTextsOf(MaxEditSegs)

KEY_DELETE_COMMAND == "KEY_DELETE_COMMAND"
KEY_BACKSPACE_COMMAND == "KEY_BACKSPACE_COMMAND"

\* The positions of the nodes of a document.
MaxNodes(d) == Len(Flatten(d))

Positions(d) ==
    {at \in (1..Len(d)) \X (1..MaxNodes(d)) : at[2] <= Len(d[at[1]])}

NodeAt(d, at) == d[at[1]][at[2]]

\* The positions of the decorator nodes: each has a mounted component, and
\* with it a controller.
Controllers(d) == {at \in Positions(d) : NodeAt(d, at).type \in DecoratorKinds}

\* useLexicalNodeSelection(nodeKey): this node is the node selection.
IsSelected(e, at) == sel[e].type = "node" /\ sel[e].at = at

\* $isNodeSelection($getSelection())
IsNodeSelection(e) == sel[e].type = "node"

\* $getSelection().getNodes()
SelectedNodes(e) ==
    IF sel[e].type = "none" THEN {} ELSE {NodeAt(doc[e], sel[e].at)}

\* A click on the node's element: clearSelection(), setSelected(true).
ClickNode(e, at) ==
    /\ at \in Controllers(doc[e])
    /\ sel' = [sel EXCEPT ![e] = [type |-> "node", at |-> at]]
    /\ last' = [NoLast EXCEPT !.editor = e, !.command = "click",
                              !.change = OnChangeCalls(doc[e], doc[e])]
    /\ UNCHANGED <<doc, mounted, props, timers, ref, hist>>

\* The user drags a text range that encloses one node.
SelectRange(e, at) ==
    /\ at \in Positions(doc[e])
    /\ sel' = [sel EXCEPT ![e] = [type |-> "range", at |-> at]]
    /\ last' = [NoLast EXCEPT !.editor = e, !.command = "select",
                              !.change = OnChangeCalls(doc[e], doc[e])]
    /\ UNCHANGED <<doc, mounted, props, timers, ref, hist>>

\* The controller whose key handler prevents the default, dispatches the
\* delete command of its kind, removes its node and reports the key handled:
\* its node is selected, the selection is a node selection, and the node is a
\* decorator node.
HandlesKeyNever(e, at) == FALSE

HandlesKey(e, at) ==
    /\ IsSelected(e, at)
    /\ IsNodeSelection(e)
    /\ NodeAt(doc[e], at).type \in DecoratorKinds

KeyHandlers(e) == {at \in Controllers(doc[e]) : HandlesKey(e, at)}

\* The controllers whose key handler dispatches the delete command of its
\* kind without removing anything: the controller's node is not selected, the
\* selection is not a node selection, and a node of the controller's class is
\* among the selected nodes.
RangeNotifiersNone(e) == {}

RangeNotifiers(e) ==
    {at \in Controllers(doc[e]) :
        /\ ~IsSelected(e, at)
        /\ ~IsNodeSelection(e)
        /\ \E node \in SelectedNodes(e) : node.type = NodeAt(doc[e], at).type}

\* The handler of DELETE_<KIND>, registered by the kind's plugin: it calls
\* onDelete and reports the command handled.  The number of onDelete calls
\* for a number of dispatches.
DeleteHandlerCalls(dispatches) == dispatches

RemoveAt(nodes, i) == SubSeq(nodes, 1, i - 1) \o SubSeq(nodes, i + 1, Len(nodes))

\* Text normalisation at the end of an update: adjacent plain text runs of
\* one format are merged into one.
RECURSIVE MergeText(_)
MergeText(nodes) ==
    IF Len(nodes) < 2 THEN nodes
    ELSE IF /\ IsSimpleText(nodes[1]) /\ IsSimpleText(nodes[2])
            /\ nodes[1].format = nodes[2].format
       THEN MergeText(<<FormattedText(nodes[1].text \o nodes[2].text,
                                      nodes[1].format)>>
                      \o Tail(Tail(nodes)))
       ELSE <<Head(nodes)>> \o MergeText(Tail(nodes))

\* The document once the node at a position is removed and the update is
\* committed: text runs are merged and the transforms run.
Removed(d, at, data) ==
    Transformed([d EXCEPT ![at[1]] = MergeText(RemoveAt(d[at[1]], at[2]))], data)

\* Backspace or Delete is pressed: KEY_BACKSPACE_COMMAND or KEY_DELETE_COMMAND
\* goes to the handlers of all controllers, in the order of the nodes, until
\* one reports it handled.  The controller of the node that is the node
\* selection prevents the default, dispatches the delete command of its kind,
\* removes its node and reports handled.  With a range selection every
\* controller in RangeNotifiers dispatches the delete command of its kind
\* and reports unhandled, and the editor's default deletion removes the
\* selected node.
PressKey(e, key) ==
    /\ sel[e].type # "none"
    /\ LET at == sel[e].at
           node == NodeAt(doc[e], at)
           handled == KeyHandlers(e) # {}
           dispatches == Cardinality(KeyHandlers(e))
                         + Cardinality(RangeNotifiers(e))
       IN  /\ doc' = [doc EXCEPT ![e] = Removed(doc[e], at, props[e].data)]
           /\ sel' = [sel EXCEPT ![e] = NoSelection]
           /\ last' = [NoLast EXCEPT !.editor = e, !.command = key,
                                     !.target = sel[e].type,
                                     !.kind = node.type,
                                     !.handled = handled,
                                     !.prevented = handled,
                                     !.at = at[2],
                                     !.before = doc[e],
                                     !.onDelete = DeleteHandlerCalls(dispatches),
                                     !.byController = Cardinality(KeyHandlers(e)),
                                     !.byDefault = IF handled THEN 0 ELSE 1,
                                     !.removed = 1,
                                     !.change = OnChangeCalls(doc[e], doc'[e])]
    /\ UNCHANGED <<mounted, props, timers, ref, hist>>

InitEdit ==
    /\ \E value \in EditTexts :
          /\ doc = [e \in Editors |->
                      IF e \in BlurEditors
                         THEN Transformed(TextToEditorState(value), NoData)
                         ELSE EmptyDoc]
          /\ props = [e \in Editors |->
                        [onBlur |-> TRUE, onFocus |-> TRUE,
                         value |-> IF e \in BlurEditors THEN value ELSE <<>>,
                         data |-> NoData]]
    /\ sel = [e \in Editors |-> NoSelection]
    /\ mounted = [e \in Editors |-> {OnBlurBlock}]
    /\ timers = [e \in Editors |-> {}]
    /\ ref = [e \in Editors |-> 0]
    /\ last = NoLast
    /\ hist = [e \in Editors |-> NoHist]

NextEdit ==
    \/ \E e \in BlurEditors : \E at \in Positions(doc[e]) : ClickNode(e, at)
    \/ \E e \in BlurEditors : \E at \in Positions(doc[e]) : SelectRange(e, at)
    \/ \E e \in BlurEditors, key \in {KEY_DELETE_COMMAND, KEY_BACKSPACE_COMMAND} :
          PressKey(e, key)

SpecEdit == InitEdit /\ [][NextEdit]_vars

----------------------------------------------------------------------------
(* The command plugins: the host-facing plugin of every placeholder kind    *)
(* registers the insert and the delete command of its kind while mounted.   *)

\* The plugin component of a kind.
PluginOf(kind) ==
    CASE kind = ContextBlockNode -> "ContextBlock"
      [] kind = HistoryBlockNode -> "HistoryBlock"
      [] kind = QueryBlockNode -> "QueryBlock"
      [] kind = RequestURLBlockNode -> "RequestURLBlock"
      [] kind = CurrentBlockNode -> "CurrentBlock"
      [] kind = ErrorMessageBlockNode -> "ErrorMessageBlock"
      [] kind = LastRunBlockNode -> "LastRunBlock"
      [] kind = HITLInputNode -> "HITLInputBlock"

Plugins == {PluginOf(kind) : kind \in DecoratorKinds}

InsertCommand(kind) ==
    CASE kind = ContextBlockNode -> "INSERT_CONTEXT_BLOCK_COMMAND"
      [] kind = HistoryBlockNode -> "INSERT_HISTORY_BLOCK_COMMAND"
      [] kind = QueryBlockNode -> "INSERT_QUERY_BLOCK_COMMAND"
      [] kind = RequestURLBlockNode -> "INSERT_REQUEST_URL_BLOCK_COMMAND"
      [] kind = CurrentBlockNode -> "INSERT_CURRENT_BLOCK_COMMAND"
      [] kind = ErrorMessageBlockNode -> "INSERT_ERROR_MESSAGE_BLOCK_COMMAND"
      [] kind = LastRunBlockNode -> "INSERT_LAST_RUN_BLOCK_COMMAND"
      [] kind = HITLInputNode -> "INSERT_HITL_INPUT_BLOCK_COMMAND"

DeleteCommand(kind) ==
    CASE kind = ContextBlockNode -> "DELETE_CONTEXT_BLOCK_COMMAND"
      [] kind = HistoryBlockNode -> "DELETE_HISTORY_BLOCK_COMMAND"
      [] kind = QueryBlockNode -> "DELETE_QUERY_BLOCK_COMMAND"
      [] kind = RequestURLBlockNode -> "DELETE_REQUEST_URL_BLOCK_COMMAND"
      [] kind = CurrentBlockNode -> "DELETE_CURRENT_BLOCK_COMMAND"
      [] kind = ErrorMessageBlockNode -> "DELETE_ERROR_MESSAGE_COMMAND"
      [] kind = LastRunBlockNode -> "DELETE_LAST_RUN_COMMAND"
      [] kind = HITLInputNode -> "DELETE_HITL_INPUT_BLOCK_COMMAND"

InsertCommands == {InsertCommand(kind) : kind \in DecoratorKinds}

DeleteCommands == {DeleteCommand(kind) : kind \in DecoratorKinds}

\* The variable name in the payload of INSERT_HITL_INPUT_BLOCK_COMMAND.
InsertPayloadName == <<"u", "_", "1">>

\* The node the insert handler of a kind makes: the factory of the kind gets
\* the data the plugin was given and, for a human-input block, the variable
\* name of the command's payload.
InsertedNodeNoData(kind, data) ==
    IF kind = HITLInputNode
       THEN CreateNode(kind, HITL_PREFIX \o InsertPayloadName \o HITL_SUFFIX,
                       NoData)
       ELSE CreateNode(kind, PlaceholderText(kind), NoData)

InsertedNode(kind, data) ==
    IF kind = HITLInputNode
       THEN CreateNode(kind, HITL_PREFIX \o InsertPayloadName \o HITL_SUFFIX, data)
       ELSE CreateNode(kind, PlaceholderText(kind), data)

\* The caret: a collapsed selection in paragraph at[1], after at[2] of its
\* nodes and, when it stands inside the text run that follows them, offset
\* characters into that run.
TextCaret(p, i, k) == [type |-> "caret", at |-> <<p, i>>, offset |-> k]

Caret(p, i) == TextCaret(p, i, 0)

\* $getRoot().selectEnd()
RootEnd(d) == Caret(Len(d), Len(d[Len(d)]))

\* $getRoot().selectStart()
RootStart(d) == Caret(1, 0)

\* The selection $insertNodes works on: the current one or, without one, the
\* end of the root.
InsertionPoint(e) == IF sel[e].type = "caret" THEN sel[e] ELSE RootEnd(doc[e])

InsertAt(nodes, i, node) ==
    SubSeq(nodes, 1, i) \o <<node>> \o SubSeq(nodes, i + 1, Len(nodes))

\* $insertNodes([node]) at a caret, and the caret it leaves.
\* A caret inside a text run splits the run around the node.
SplitAt(nodes, i, k) ==
    IF k = 0 THEN nodes
    ELSE SubSeq(nodes, 1, i)
         \o <<TextNode(Slice(nodes[i + 1].text, 0, k)),
              TextNode(Slice(nodes[i + 1].text, k, Len(nodes[i + 1].text)))>>
         \o SubSeq(nodes, i + 2, Len(nodes))

WithNodeAtRoot(d, caret, node) == Append(d, <<node>>)

WithNode(d, caret, node) ==
    LET split == SplitAt(d[caret.at[1]], caret.at[2], caret.offset)
        i == IF caret.offset = 0 THEN caret.at[2] ELSE caret.at[2] + 1
    IN  [d EXCEPT ![caret.at[1]] = InsertAt(split, i, node)]

CaretStays(caret) == caret

CaretAfter(caret) ==
    Caret(caret.at[1],
          IF caret.offset = 0 THEN caret.at[2] + 1 ELSE caret.at[2] + 2)

\* How often a handler calls a callback of the host: once when it was given.
CallbackCallsTwice(given) == IF given THEN 2 ELSE 0

CallbackCalls(given) == IF given THEN 1 ELSE 0

\* Whether a command finds a handler: the plugin of the kind is mounted.
HasHandlerAlways(e, kind) == TRUE

HasHandler(e, kind) == PluginOf(kind) \in mounted[e]

MaxInserts == 2    \* the document holds up to MaxInserts inserted nodes

\* editor.dispatchCommand(INSERT_<KIND>_COMMAND, payload).  The handler of the
\* kind's plugin makes the node, inserts it at the selection, which then is
\* collapsed after the node, calls onInsert when the host gave one and reports
\* handled; the update is committed with its transforms.  Without the plugin
\* nothing is registered for the command: the dispatch reports unhandled.
DispatchInsert(e, kind) ==
    /\ Len(Flatten(doc[e])) < MaxInserts
    /\ LET caret == InsertionPoint(e)
           node == InsertedNode(kind, props[e].data)
           atEnd == caret = RootEnd(doc[e])
           chained == last.command \in InsertCommands /\ last.handled
                      /\ last.target = "end"
           started == [NoLast EXCEPT !.editor = e,
                                     !.command = InsertCommand(kind),
                                     !.kind = kind, !.before = doc[e],
                                     !.registered = PluginOf(kind) \in mounted[e]]
       IN  IF HasHandler(e, kind)
              THEN /\ doc' = [doc EXCEPT ![e] =
                                Transformed(WithNode(doc[e], caret, node),
                                            props[e].data)]
                   /\ sel' = [sel EXCEPT ![e] = CaretAfter(caret)]
                   /\ last' = [started EXCEPT
                                 !.handled = TRUE,
                                 !.made = <<node>>,
                                 !.at = CaretAfter(caret).at[2] - 1,
                                 !.caret = CaretAfter(caret).at[2],
                                 !.target = IF atEnd THEN "end" ELSE "inside",
                                 !.prev = IF chained THEN last.kind ELSE "",
                                 !.onInsert = CallbackCalls(props[e].onInsert),
                                 !.change = OnChangeCalls(doc[e], doc'[e])]
              ELSE /\ last' = started
                   /\ UNCHANGED <<doc, sel>>
    /\ UNCHANGED <<mounted, props, timers, ref, hist>>

\* editor.dispatchCommand(DELETE_<KIND>_COMMAND, undefined).  The handler of
\* the kind's plugin calls onDelete when the host gave one and reports
\* handled; it does not touch the document.
DeleteHandlerRemoves(d, kind) ==
    [p \in 1..Len(d) |-> SelectSeq(d[p], LAMBDA node : node.type # kind)]

DeleteHandlerDoc(d, kind) == d

DispatchDelete(e, kind) ==
    /\ LET started == [NoLast EXCEPT !.editor = e,
                                     !.command = DeleteCommand(kind),
                                     !.kind = kind, !.before = doc[e],
                                     !.caret = sel[e].at[2],
                                     !.target = sel[e].type,
                                     !.registered = PluginOf(kind) \in mounted[e]]
       IN  IF HasHandler(e, kind)
              THEN /\ doc' = [doc EXCEPT ![e] = DeleteHandlerDoc(doc[e], kind)]
                   /\ last' = [started EXCEPT
                                 !.handled = TRUE,
                                 !.onDelete = CallbackCalls(props[e].onDelete)]
              ELSE /\ last' = started
                   /\ UNCHANGED doc
    /\ UNCHANGED <<sel, mounted, props, timers, ref, hist>>

\* $getRoot().selectEnd() and $getRoot().selectStart() in an update.
SelectRootEnd(e) ==
    /\ sel[e] # RootEnd(doc[e])
    /\ sel' = [sel EXCEPT ![e] = RootEnd(doc[e])]
    /\ last' = [NoLast EXCEPT !.editor = e, !.command = "selectEnd",
                              !.change = OnChangeCalls(doc[e], doc[e])]
    /\ UNCHANGED <<doc, mounted, props, timers, ref, hist>>

SelectRootStart(e) ==
    /\ sel[e] # RootStart(doc[e])
    /\ sel' = [sel EXCEPT ![e] = RootStart(doc[e])]
    /\ last' = [NoLast EXCEPT !.editor = e, !.command = "selectStart",
                              !.change = OnChangeCalls(doc[e], doc[e])]
    /\ UNCHANGED <<doc, mounted, props, timers, ref, hist>>

\* An editor with all node classes registered and the plugins of all kinds
\* mounted; the host may or may not have given onInsert and onDelete, and has
\* given the plugins some data.
InitCmd ==
    /\ doc = [e \in Editors |-> EmptyDoc]
    /\ sel = [e \in Editors |-> NoSelection]
    /\ mounted = [e \in Editors |-> Plugins]
    /\ \E onInsert \in BOOLEAN, onDelete \in BOOLEAN, data \in Payloads :
          props = [e \in Editors |->
                     [onBlur |-> TRUE, onFocus |-> TRUE, value |-> <<>>,
                      data |-> data, nodes |-> Kinds,
                      onInsert |-> onInsert, onDelete |-> onDelete]]
    /\ timers = [e \in Editors |-> {}]
    /\ ref = [e \in Editors |-> 0]
    /\ last = NoLast
    /\ hist = [e \in Editors |-> NoHist]

NextCmd ==
    \/ \E e \in BlurEditors, kind \in DecoratorKinds : DispatchInsert(e, kind)
    \/ \E e \in BlurEditors, kind \in DecoratorKinds : DispatchDelete(e, kind)
    \/ \E e \in BlurEditors : SelectRootEnd(e)
    \/ \E e \in BlurEditors : SelectRootStart(e)

SpecCmd == InitCmd /\ [][NextCmd]_vars

----------------------------------------------------------------------------
(* Mounting: a plugin, a replacement plugin and the component of a node     *)
(* check in their effect that the editor has the node class they work with. *)

\* The error a plugin throws from its effect when editor.hasNodes([class]) is
\* false: the name before the colon and the block the message calls not
\* registered.
NotRegistered(plugin, block) == [plugin |-> plugin, block |-> block]

PluginError(kind) ==
    CASE kind = ContextBlockNode ->
             NotRegistered("ContextBlockPlugin", "ContextBlock")
      [] kind = HistoryBlockNode ->
             NotRegistered("HistoryBlockPlugin", "HistoryBlock")
      [] kind = QueryBlockNode ->
             NotRegistered("QueryBlockPlugin", "QueryBlock")
      [] kind = RequestURLBlockNode ->
             NotRegistered("RequestURLBlockPlugin", "RequestURLBlock")
      [] kind = CurrentBlockNode ->
             NotRegistered("CURRENTBlockPlugin", "CURRENTBlock")
      [] kind = ErrorMessageBlockNode ->
             NotRegistered("ERROR_MESSAGEBlockPlugin", "ERROR_MESSAGEBlock")
      [] kind = LastRunBlockNode ->
             NotRegistered("Last_RunBlockPlugin", "Last_RunBlock")
      [] kind = HITLInputNode ->
             NotRegistered("HITLInputBlockPlugin", "HITLInputBlock")

\* The plugin of a kind is mounted on the editor: its effect checks the node
\* class and registers the two commands.  A missing class makes the render
\* throw, and nothing is mounted.
MountPlugin(e, kind) ==
    /\ PluginOf(kind) \notin mounted[e]
    /\ IF kind \in props[e].nodes
          THEN /\ mounted' = [mounted EXCEPT ![e] = @ \cup {PluginOf(kind)}]
               /\ hist' = [hist EXCEPT ![e].torn = @ \ {PluginOf(kind)}]
               /\ last' = [NoLast EXCEPT !.editor = e, !.command = "mount",
                                         !.target = PluginOf(kind),
                                         !.kind = kind]
          ELSE /\ last' = [NoLast EXCEPT !.editor = e, !.command = "mount",
                                         !.target = PluginOf(kind),
                                         !.kind = kind,
                                         !.error = <<PluginError(kind)>>]
               /\ UNCHANGED <<mounted, hist>>
    /\ UNCHANGED <<doc, sel, props, timers, ref>>

\* The plugin is unmounted: the cleanup of its effect unregisters the two
\* commands.
UnmountPlugin(e, kind) ==
    /\ PluginOf(kind) \in mounted[e]
    /\ mounted' = [mounted EXCEPT ![e] = @ \ {PluginOf(kind)}]
    /\ hist' = [hist EXCEPT ![e].torn = @ \cup {PluginOf(kind)}]
    /\ last' = [NoLast EXCEPT !.editor = e, !.command = "unmount",
                              !.target = PluginOf(kind), !.kind = kind]
    /\ UNCHANGED <<doc, sel, props, timers, ref>>

\* The replacement plugin of a kind, with the error it throws when the class
\* is missing.  (The tests give none for the error message block.)
ReplacementKinds == DecoratorKinds \ {ErrorMessageBlockNode}

ReplacementOf(kind) ==
    CASE kind = ContextBlockNode -> "ContextBlockReplacementBlock"
      [] kind = HistoryBlockNode -> "HistoryBlockReplacementBlock"
      [] kind = QueryBlockNode -> "QueryBlockReplacementBlock"
      [] kind = RequestURLBlockNode -> "RequestURLBlockReplacementBlock"
      [] kind = CurrentBlockNode -> "CurrentBlockReplacementBlock"
      [] kind = LastRunBlockNode -> "LastRunReplacementBlock"
      [] kind = HITLInputNode -> "HITLInputReplacementBlock"

ReplacementError(kind) ==
    CASE kind = ContextBlockNode ->
             NotRegistered("ContextBlockNodePlugin", "ContextBlockNode")
      [] kind = HistoryBlockNode ->
             NotRegistered("HistoryBlockNodePlugin", "HistoryBlockNode")
      [] kind = QueryBlockNode ->
             NotRegistered("QueryBlockNodePlugin", "QueryBlockNode")
      [] kind = RequestURLBlockNode ->
             NotRegistered("RequestURLBlockNodePlugin", "RequestURLBlockNode")
      [] kind = CurrentBlockNode ->
             NotRegistered("CurrentBlockNodePlugin", "CurrentBlockNode")
      [] kind = LastRunBlockNode ->
             NotRegistered("LastRunMessageBlockNodePlugin",
                           "LastRunMessageBlockNode")
      [] kind = HITLInputNode ->
             NotRegistered("HITLInputNodePlugin", "HITLInputNode")

\* The components of the current block and of the last run block, with the
\* error they throw when their class is missing.
ComponentKinds == {CurrentBlockNode, LastRunBlockNode}

ComponentOf(kind) ==
    CASE kind = CurrentBlockNode -> "CurrentBlockComponent"
      [] kind = LastRunBlockNode -> "LastRunBlockComponent"

ComponentError(kind) ==
    NotRegistered("WorkflowVariableBlockPlugin", "WorkflowVariableBlock")

\* The node class a message means by the block it calls not registered.
WorkflowVariableBlockNode == "WorkflowVariableBlockNode"

KindNamed(block) ==
    CASE block \in {"ContextBlock", "ContextBlockNode"} -> ContextBlockNode
      [] block \in {"HistoryBlock", "HistoryBlockNode"} -> HistoryBlockNode
      [] block \in {"QueryBlock", "QueryBlockNode"} -> QueryBlockNode
      [] block \in {"RequestURLBlock", "RequestURLBlockNode"} ->
             RequestURLBlockNode
      [] block \in {"CURRENTBlock", "CurrentBlockNode"} -> CurrentBlockNode
      [] block = "ERROR_MESSAGEBlock" -> ErrorMessageBlockNode
      [] block \in {"Last_RunBlock", "LastRunMessageBlockNode"} ->
             LastRunBlockNode
      [] block \in {"HITLInputBlock", "HITLInputNode"} -> HITLInputNode
      [] block = "WorkflowVariableBlock" -> WorkflowVariableBlockNode

\* A replacement plugin or a component is rendered: it throws when the class
\* is missing and stays mounted otherwise.
MountOther(e, kind, name, error) ==
    /\ name \notin mounted[e]
    /\ IF kind \in props[e].nodes
          THEN /\ mounted' = [mounted EXCEPT ![e] = @ \cup {name}]
               /\ last' = [NoLast EXCEPT !.editor = e, !.command = "mount",
                                         !.target = name, !.kind = kind]
          ELSE /\ last' = [NoLast EXCEPT !.editor = e, !.command = "mount",
                                         !.target = name, !.kind = kind,
                                         !.error = <<error>>]
               /\ UNCHANGED mounted
    /\ UNCHANGED <<doc, sel, props, timers, ref, hist>>

MountReplacementBlock(e, kind) ==
    MountOther(e, kind, ReplacementOf(kind), ReplacementError(kind))

MountComponent(e, kind) ==
    MountOther(e, kind, ComponentOf(kind), ComponentError(kind))

UnmountOther(e, name) ==
    /\ name \in mounted[e] \ Plugins
    /\ mounted' = [mounted EXCEPT ![e] = @ \ {name}]
    /\ last' = [NoLast EXCEPT !.editor = e, !.command = "unmount",
                              !.target = name]
    /\ UNCHANGED <<doc, sel, props, timers, ref, hist>>

\* An editor as the tests of one plugin set it up: the text node class and
\* at most one more class are registered, nothing is mounted yet.
InitMount ==
    /\ doc = [e \in Editors |-> EmptyDoc]
    /\ sel = [e \in Editors |-> NoSelection]
    /\ mounted = [e \in Editors |-> {}]
    /\ \E onInsert \in BOOLEAN, onDelete \in BOOLEAN, data \in Payloads,
          nodes \in {{CustomTextNode}} \cup
                    {{CustomTextNode, kind} : kind \in DecoratorKinds} :
          props = [e \in Editors |->
                     [onBlur |-> TRUE, onFocus |-> TRUE, value |-> <<>>,
                      data |-> data, nodes |-> nodes,
                      onInsert |-> onInsert, onDelete |-> onDelete]]
    /\ timers = [e \in Editors |-> {}]
    /\ ref = [e \in Editors |-> 0]
    /\ last = NoLast
    /\ hist = [e \in Editors |-> NoHist]

NextMount ==
    \/ \E e \in BlurEditors, kind \in DecoratorKinds : MountPlugin(e, kind)
    \/ \E e \in BlurEditors, kind \in DecoratorKinds : UnmountPlugin(e, kind)
    \/ \E e \in BlurEditors, kind \in ReplacementKinds :
          MountReplacementBlock(e, kind)
    \/ \E e \in BlurEditors, kind \in ComponentKinds : MountComponent(e, kind)
    \/ \E e \in BlurEditors : \E name \in mounted[e] : UnmountOther(e, name)
    \/ \E e \in BlurEditors, kind \in DecoratorKinds : DispatchInsert(e, kind)
    \/ \E e \in BlurEditors, kind \in DecoratorKinds : DispatchDelete(e, kind)
    \/ \E e \in BlurEditors : SelectRootEnd(e)

SpecMount == InitMount /\ [][NextMount]_vars

----------------------------------------------------------------------------
(* The replacement plugins at work: the root is set to one text run, the    *)
(* text the host has for the editor, and the transforms make the nodes with *)
(* the data the plugins hold then.                                          *)

MaxRunSegs == 3    \* a text run is made of up to MaxRunSegs segments

RunSegments ==
    << <<"A", " ">>, <<" ", "B">>, CONTEXT_PLACEHOLDER_TEXT,
       LAST_RUN_PLACEHOLDER_TEXT,
       HITL_PREFIX \o InsertPayloadName \o HITL_SUFFIX,
       <<"{", "{", "#", "c", "o", "n", "t", "e", "x">> >>

RECURSIVE RunTextsOf(_)
RunTextsOf(n) ==
    IF n = 0 THEN {<<>>}
    ELSE LET shorter == RunTextsOf(n - 1)
         IN  shorter \cup {t \o RunSegments[i] :
                              t \in shorter, i \in 1..Len(RunSegments)}

RunTexts == RunTextsOf(MaxRunSegs) \ {<<>>}

SET_ROOT_TEXT == "setEditorRootText"

\* root.clear(), then a paragraph with one text node of the host's text; the
\* transforms of the replacement plugins run before the update is committed.
SetEditorRootText(e) ==
    /\ last.command # SET_ROOT_TEXT
    /\ \E initial \in {<<<<TextNode(props[e].value)>>>>} :
       \E pieces \in {TransformPieces(initial, props[e].data)} :
       \E made \in {MadeIn(pieces)} :
          /\ doc' = [doc EXCEPT ![e] = DocOf(pieces)]
          /\ last' = [NoLast EXCEPT !.editor = e, !.command = SET_ROOT_TEXT,
                                    !.input = props[e].value,
                                    !.before = initial,
                                    !.made = made,
                                    !.onInsert = OnInsertCalls(made),
                                    !.change = OnChangeCalls(doc[e], doc'[e])]
    /\ sel' = [sel EXCEPT ![e] = NoSelection]
    /\ UNCHANGED <<mounted, props, timers, ref, hist>>

\* The host renders the replacement plugins again with other data.
SetPluginData(e, data) ==
    /\ data # props[e].data
    /\ props' = [props EXCEPT ![e].data = data]
    /\ last' = [NoLast EXCEPT !.editor = e, !.command = "render"]
    /\ UNCHANGED <<doc, sel, mounted, timers, ref, hist>>

InitReplace ==
    /\ doc = [e \in Editors |-> EmptyDoc]
    /\ sel = [e \in Editors |-> NoSelection]
    /\ mounted = [e \in Editors |->
                    {ReplacementOf(kind) : kind \in ReplacementKinds}]
    /\ \E text \in RunTexts, data \in Payloads :
          props = [e \in Editors |->
                     [onBlur |-> TRUE, onFocus |-> TRUE,
                      value |-> IF e \in BlurEditors THEN text ELSE <<>>,
                      data |-> data, nodes |-> Kinds,
                      onInsert |-> TRUE, onDelete |-> TRUE]]
    /\ timers = [e \in Editors |-> {}]
    /\ ref = [e \in Editors |-> 0]
    /\ last = NoLast
    /\ hist = [e \in Editors |-> NoHist]

NextReplace ==
    \/ \E e \in BlurEditors : SetEditorRootText(e)
    \/ \E e \in BlurEditors, data \in Payloads : SetPluginData(e, data)

SpecReplace == InitReplace /\ [][NextReplace]_vars

----------------------------------------------------------------------------
(* The plugin UpdateBlock: the editors of a page share one event emitter;   *)
(* every editor's UpdateBlock subscribes to it with the editor's instance   *)
(* id, and an emitted event calls the subscribers one after another.        *)

MaxQuick == 2       \* quick inserts an editor takes before its next update

UpdateBlock == "UpdateBlock"

PROMPT_EDITOR_UPDATE_VALUE_BY_EVENT_EMITTER == "PROMPT_EDITOR_UPDATE_VALUE_BY_EVENT_EMITTER"
PROMPT_EDITOR_INSERT_QUICKLY == "PROMPT_EDITOR_INSERT_QUICKLY"

BusEvents == {PROMPT_EDITOR_UPDATE_VALUE_BY_EVENT_EMITTER,
              PROMPT_EDITOR_INSERT_QUICKLY}

\* The instance ids events are emitted with: those of the editors and one
\* that no editor of the page has.
InstanceIds == Editors \cup {"instance-3"}

BusPayloads == {<<>>, <<"a">>, CONTEXT_PLACEHOLDER_TEXT,
                <<"a", "\n">> \o QUERY_PLACEHOLDER_TEXT}

\* The subscriber of editor e acts on an event only when the event's
\* instance id is the editor's.
DeliversToAll(e, instanceId) == UpdateBlock \in mounted[e]

Delivers(e, instanceId) ==
    /\ UpdateBlock \in mounted[e]
    /\ instanceId = e

\* The update value event: the editor's state is set to
\* textToEditorState(payload), and the transforms run before the commit.
UpdatedValueFirstLine(payload, data) ==
    Transformed(<<TextToEditorState(payload)[1]>>, data)

UpdatedValue(payload, data) == Transformed(TextToEditorState(payload), data)

\* The quick insert event: the text "/" is inserted at the caret, or at the
\* end of the root when there is none, and the clear command is dispatched.
\* The text joins the run before the caret or the run after it, or makes a run
\* of its own between two nodes that are not plain text.
TextInserted(nodes, i, k, text) ==
    IF k > 0
       THEN [nodes EXCEPT ![i + 1] =
               FormattedText(Slice(@.text, 0, k) \o text
                             \o Slice(@.text, k, Len(@.text)), @.format)]
    ELSE IF i > 0 /\ IsSimpleText(nodes[i])
       THEN [nodes EXCEPT ![i] = FormattedText(@.text \o text, @.format)]
    ELSE IF i < Len(nodes) /\ IsSimpleText(nodes[i + 1])
       THEN [nodes EXCEPT ![i + 1] = FormattedText(text \o @.text, @.format)]
       ELSE InsertAt(nodes, i, TextNode(text))

InsertedAtCaret(d, caret, text, data) ==
    Transformed([d EXCEPT ![caret.at[1]] =
                    TextInserted(@, caret.at[2], caret.offset, text)], data)

\* The caret after the inserted text.
CaretAfterText(d, caret, text) ==
    LET nodes == d[caret.at[1]]
        i == caret.at[2]
    IN  IF caret.offset > 0
           THEN TextCaret(caret.at[1], i, caret.offset + Len(text))
        ELSE IF i > 0 /\ IsSimpleText(nodes[i])
           THEN Caret(caret.at[1], i)
        ELSE IF i < Len(nodes) /\ IsSimpleText(nodes[i + 1])
           THEN TextCaret(caret.at[1], i, Len(text))
           ELSE Caret(caret.at[1], i + 1)

\* The offset of a caret in the root text.
TextOffset(d, caret) ==
    Len(JoinLines(SubSeq(d, 1, caret.at[1] - 1)))
    + (IF caret.at[1] > 1 THEN 1 ELSE 0)
    + Len(ParagraphText(SubSeq(d[caret.at[1]], 1, caret.at[2])))
    + caret.offset

\* Whether the subscriber of editor e dispatches the clear command for an
\* event: it does after a quick insert that is the editor's.
DispatchesClearNever(e, type, instanceId) == FALSE

DispatchesClear(e, type, instanceId) ==
    /\ type = PROMPT_EDITOR_INSERT_QUICKLY
    /\ Delivers(e, instanceId)

QuickCount(d) == Len(SelectSeq(RootText(d), LAMBDA c : c = "/"))

\* UpdateBlock subscribes twice: the first callback takes the update value
\* event, the second one the quick insert event.
Subscriptions ==
    <<PROMPT_EDITOR_UPDATE_VALUE_BY_EVENT_EMITTER, PROMPT_EDITOR_INSERT_QUICKLY>>

SubscriptionTakesAny(i, type) == TRUE

\* The callback of subscription i acts on an event of its own type only.
SubscriptionTakes(i, type) == Subscriptions[i] = type

\* The subscriptions of editor e whose callbacks act on an event, in the order
\* the emitter calls them.
ActingSubscriptions(e, type, instanceId) ==
    IF Delivers(e, instanceId)
       THEN SelectSeq(<<1, 2>>, LAMBDA i : SubscriptionTakes(i, type))
       ELSE <<>>

\* What the callback of subscription i does to the document and the selection:
\* the first one replaces the value by the payload, the second one inserts
\* "/" at the caret, or at the end of the root when there is none.
SubscriptionApplied(i, st, payload, data) ==
    IF Subscriptions[i] = PROMPT_EDITOR_UPDATE_VALUE_BY_EVENT_EMITTER
       THEN [doc |-> UpdatedValue(payload, data), sel |-> NoSelection]
       ELSE LET caret == IF st.sel.type = "caret" THEN st.sel
                         ELSE RootEnd(st.doc)
            IN  [doc |-> InsertedAtCaret(st.doc, caret, <<"/">>, data),
                 sel |-> CaretAfterText(st.doc, caret, <<"/">>)]

RECURSIVE CallbacksApplied(_, _, _, _)
CallbacksApplied(acting, st, payload, data) ==
    IF acting = <<>> THEN st
    ELSE CallbacksApplied(Tail(acting),
                          SubscriptionApplied(Head(acting), st, payload, data),
                          payload, data)

\* eventEmitter.emit(event): every subscriber is called with the event.
Emit(type, instanceId, payload) ==
    /\ type = PROMPT_EDITOR_INSERT_QUICKLY =>
          /\ payload = <<"/">>
          /\ \A e \in Editors :
                Delivers(e, instanceId) => QuickCount(doc[e]) < MaxQuick
    /\ type = PROMPT_EDITOR_UPDATE_VALUE_BY_EVENT_EMITTER => payload \in BusPayloads
    /\ LET cleared(e) == /\ DispatchesClear(e, type, instanceId)
                         /\ OnBlurBlock \in mounted[e]
       IN  /\ \E res \in {[e \in Editors |->
                              CallbacksApplied(
                                 ActingSubscriptions(e, type, instanceId),
                                 [doc |-> doc[e], sel |-> sel[e]],
                                 payload, props[e].data)]} :
                  /\ doc' = [e \in Editors |-> res[e].doc]
                  /\ sel' = [e \in Editors |-> res[e].sel]
           /\ timers' = [e \in Editors |->
                           IF cleared(e) THEN ClearedTimers(timers[e], ref[e])
                           ELSE timers[e]]
           /\ ref' = [e \in Editors |-> IF cleared(e) THEN 0 ELSE ref[e]]
           /\ hist' = [e \in Editors |->
                         IF cleared(e)
                            THEN [hist[e] EXCEPT
                                    !.cut = TRUE,
                                    !.clearedEarly = @ \/ HideTimerPending(e)]
                            ELSE hist[e]]
    /\ last' = [NoLast EXCEPT
                  !.editor = instanceId, !.command = type,
                  !.input = payload,
                  !.handled = \E e \in Editors : Delivers(e, instanceId),
                  !.before = IF instanceId \in Editors THEN doc[instanceId]
                             ELSE EmptyDoc,
                  !.at = IF instanceId \in Editors
                            THEN TextOffset(doc[instanceId],
                                            InsertionPoint(instanceId))
                            ELSE 0,
                  !.clear = Cardinality({e \in Editors :
                                           DispatchesClear(e, type, instanceId)}),
                  !.invoked = IF instanceId \in Editors
                                 THEN ActingSubscriptions(instanceId, type,
                                                          instanceId)
                                 ELSE <<>>,
                  !.change = IF \E e \in Editors : Delivers(e, instanceId)
                                THEN OnChangeCalls(doc[instanceId],
                                                   doc'[instanceId])
                                ELSE <<>>]
    /\ UNCHANGED <<mounted, props>>

\* The page of two editors with the blur of the first one and the clock: an
\* event is emitted for the first editor or for no editor of the page.
NextQuick ==
    \/ \E type \in BusEvents, instanceId \in BlurEditors \cup (InstanceIds \ Editors),
          payload \in BusPayloads \cup {<<"/">>} :
             Emit(type, instanceId, payload)
    \/ \E e \in BlurEditors, target \in RelatedTargets : DispatchBlur(e, target)
    \/ \E e \in BlurEditors : SelectRootEnd(e)
    \/ \E e \in BlurEditors : SelectRootStart(e)
    \/ AdvanceTimers

InitBus ==
    /\ doc = [e \in Editors |-> EmptyDoc]
    /\ sel = [e \in Editors |-> NoSelection]
    /\ mounted = [e \in Editors |-> {OnBlurBlock, UpdateBlock}]
    /\ props = [e \in Editors |-> [onBlur |-> TRUE, onFocus |-> TRUE, value |-> <<>>,
                     data |-> NoData]]
    /\ timers = [e \in Editors |-> {}]
    /\ ref = [e \in Editors |-> 0]
    /\ last = NoLast
    /\ hist = [e \in Editors |-> NoHist]

NextBus ==
    \E type \in BusEvents, instanceId \in InstanceIds,
       payload \in BusPayloads \cup {<<"/">>} :
          Emit(type, instanceId, payload)

SpecBus == InitBus /\ [][NextBus]_vars

SpecQuick == InitBus /\ [][NextQuick]_vars

----------------------------------------------------------------------------
(* The command bus: editor.registerCommand(command, listener, priority) and *)
(* editor.dispatchCommand(command, payload).  Next to the handlers of the   *)
(* plugin OnBlurBlock the host registers handlers of its own.               *)

MaxHandlers == 2    \* handlers the host registers on one editor

COMMAND_PRIORITY_EDITOR == 0
COMMAND_PRIORITY_LOW == 1
COMMAND_PRIORITY_NORMAL == 2
COMMAND_PRIORITY_HIGH == 3
COMMAND_PRIORITY_CRITICAL == 4

\* The priorities and the commands the host registers handlers with.
HostPriorities == {COMMAND_PRIORITY_EDITOR, COMMAND_PRIORITY_LOW,
                   COMMAND_PRIORITY_CRITICAL}

HostCommands == {CLEAR_HIDE_MENU_TIMEOUT, KEY_ESCAPE_COMMAND}

\* A registered handler: its command, its priority, what it returns, and who
\* registered it.
Handler(command, priority, returns, owner) ==
    [command |-> command, priority |-> priority, returns |-> returns,
     owner |-> owner]

\* The handlers OnBlurBlock registers in its effect; each reports handled.
BlurBlockHandlers ==
    << Handler(BLUR_COMMAND, COMMAND_PRIORITY_EDITOR, TRUE, OnBlurBlock),
       Handler(FOCUS_COMMAND, COMMAND_PRIORITY_EDITOR, TRUE, OnBlurBlock),
       Handler(CLEAR_HIDE_MENU_TIMEOUT, COMMAND_PRIORITY_EDITOR, TRUE,
               OnBlurBlock) >>

\* The listeners of a command at one priority, in the order of registration,
\* and the listeners of a command in the order a dispatch calls them: from
\* the critical priority down to the editor priority.
ListenersAt(registry, command, priority) ==
    SelectSeq([i \in 1..Len(registry) |-> i],
              LAMBDA i : /\ registry[i].command = command
                         /\ registry[i].priority = priority)

Listeners(registry, command) ==
    ListenersAt(registry, command, COMMAND_PRIORITY_CRITICAL)
    \o ListenersAt(registry, command, COMMAND_PRIORITY_HIGH)
    \o ListenersAt(registry, command, COMMAND_PRIORITY_NORMAL)
    \o ListenersAt(registry, command, COMMAND_PRIORITY_LOW)
    \o ListenersAt(registry, command, COMMAND_PRIORITY_EDITOR)

\* The listeners a dispatch calls: one after another until one returns true.
InvokedAll(registry, listeners) == listeners

RECURSIVE Invoked(_, _)
Invoked(registry, listeners) ==
    IF listeners = <<>> THEN <<>>
    ELSE IF registry[Head(listeners)].returns THEN <<Head(listeners)>>
    ELSE <<Head(listeners)>> \o Invoked(registry, Tail(listeners))

\* What dispatchCommand returns for the listeners it called.
DispatchResult(registry, invoked) ==
    \E k \in 1..Len(invoked) : registry[invoked[k]].returns

HostHandlers(registry) ==
    SelectSeq(registry, LAMBDA handler : handler.owner = "host")

\* editor.registerCommand(command, listener, priority) by the host.
RegisterCommand(e, command, priority, returns) ==
    /\ Len(HostHandlers(props[e].handlers)) < MaxHandlers
    /\ props' = [props EXCEPT ![e].handlers =
                    Append(@, Handler(command, priority, returns, "host"))]
    /\ last' = [NoLast EXCEPT !.editor = e, !.command = "register"]
    /\ UNCHANGED <<doc, sel, mounted, timers, ref, hist>>

\* The function registerCommand returned is called: the handler is removed.
UnregisterCommand(e, i) ==
    /\ i \in 1..Len(props[e].handlers)
    /\ props[e].handlers[i].owner = "host"
    /\ props' = [props EXCEPT ![e].handlers = RemoveAt(@, i)]
    /\ last' = [NoLast EXCEPT !.editor = e, !.command = "unregister"]
    /\ UNCHANGED <<doc, sel, mounted, timers, ref, hist>>

\* editor.dispatchCommand(command, payload): the listeners are called in
\* order until one returns true.  When the clear handler of OnBlurBlock is
\* among the called ones, the pending timeout is cleared.
DispatchCommand(e, command) ==
    /\ LET registry == props[e].handlers
           invoked == Invoked(registry, Listeners(registry, command))
           cleared == /\ command = CLEAR_HIDE_MENU_TIMEOUT
                      /\ \E k \in 1..Len(invoked) :
                            registry[invoked[k]].owner = OnBlurBlock
       IN  /\ last' = [NoLast EXCEPT
                         !.editor = e, !.command = command,
                         !.registered = Listeners(registry, command) # <<>>,
                         !.invoked = invoked,
                         !.handled = DispatchResult(registry, invoked)]
           /\ IF cleared
                 THEN /\ ClearHideMenuTimeout(e)
                      /\ hist' = [hist EXCEPT
                                    ![e].cut = TRUE,
                                    ![e].clearedEarly = @ \/ HideTimerPending(e)]
                 ELSE UNCHANGED <<timers, ref, hist>>
    /\ UNCHANGED <<doc, sel, mounted, props>>

\* An editor with or without OnBlurBlock, whose handlers were registered at
\* the mount, and no handler of the host yet.
InitDispatch ==
    /\ doc = [e \in Editors |-> EmptyDoc]
    /\ sel = [e \in Editors |-> NoSelection]
    /\ \E plugins \in {{}, {OnBlurBlock}} :
          /\ mounted = [e \in Editors |-> plugins]
          /\ props = [e \in Editors |->
                        [onBlur |-> TRUE, onFocus |-> TRUE, value |-> <<>>,
                         data |-> NoData,
                         handlers |-> IF OnBlurBlock \in plugins
                                         THEN BlurBlockHandlers ELSE <<>>]]
    /\ timers = [e \in Editors |-> {}]
    /\ ref = [e \in Editors |-> 0]
    /\ last = NoLast
    /\ hist = [e \in Editors |-> NoHist]

NextDispatch ==
    \/ \E e \in BlurEditors, command \in HostCommands,
          priority \in HostPriorities, returns \in BOOLEAN :
             RegisterCommand(e, command, priority, returns)
    \/ \E e \in BlurEditors : \E i \in 1..Len(props[e].handlers) :
          UnregisterCommand(e, i)
    \/ \E e \in BlurEditors, command \in HostCommands : DispatchCommand(e, command)
    \/ \E e \in BlurEditors, target \in RelatedTargets : DispatchBlur(e, target)

SpecDispatch == InitDispatch /\ [][NextDispatch]_vars

----------------------------------------------------------------------------
(* The transactions together: on one document the host sets the text, the   *)
(* insert commands, the quick insert, the selection and the delete keys act *)
(* one after another.                                                       *)

\* The texts the host has for the editor: plain text, human-input tokens
\* alone, side by side and in the middle of text, and one after a context
\* placeholder.
TreeTexts ==
    LET token == HITL_PREFIX \o InsertPayloadName \o HITL_SUFFIX
    IN  {<<"a">>, token, <<"a">> \o token \o <<"a">>, token \o token,
         CONTEXT_PLACEHOLDER_TEXT \o token}

TreeKinds == {ContextBlockNode, HITLInputNode}

InitTree ==
    /\ doc = [e \in Editors |-> EmptyDoc]
    /\ sel = [e \in Editors |-> NoSelection]
    /\ mounted = [e \in Editors |->
                    Plugins \cup {OnBlurBlock, UpdateBlock}
                    \cup {ReplacementOf(kind) : kind \in ReplacementKinds}]
    /\ \E text \in TreeTexts :
          props = [e \in Editors |->
                     [onBlur |-> TRUE, onFocus |-> TRUE,
                      value |-> IF e \in BlurEditors THEN text ELSE <<>>,
                      data |-> NoData, nodes |-> Kinds,
                      onInsert |-> TRUE, onDelete |-> TRUE]]
    /\ timers = [e \in Editors |-> {}]
    /\ ref = [e \in Editors |-> 0]
    /\ last = NoLast
    /\ hist = [e \in Editors |-> NoHist]

\* The insert commands and the quick insert act on a caret or, without a
\* selection, at the end of the root; the keys act on a selected node or range.
NextTree ==
    \/ \E e \in BlurEditors : SetEditorRootText(e)
    \/ \E e \in BlurEditors, kind \in TreeKinds :
          /\ sel[e].type \in {"none", "caret"}
          /\ DispatchInsert(e, kind)
    \/ \E e \in BlurEditors :
          /\ sel[e].type \in {"none", "caret"}
          /\ Emit(PROMPT_EDITOR_INSERT_QUICKLY, e, <<"/">>)
    \/ \E e \in BlurEditors : SelectRootEnd(e)
    \/ \E e \in BlurEditors : SelectRootStart(e)
    \/ \E e \in BlurEditors : \E at \in Positions(doc[e]) : ClickNode(e, at)
    \/ \E e \in BlurEditors : \E at \in Positions(doc[e]) : SelectRange(e, at)
    \/ \E e \in BlurEditors, key \in {KEY_DELETE_COMMAND, KEY_BACKSPACE_COMMAND} :
          /\ sel[e].type \in {"node", "range"}
          /\ PressKey(e, key)

SpecTree == InitTree /\ [][NextTree]_vars

----------------------------------------------------------------------------
(* Serialized nodes: the human-input block *)

\* An object is a function from the keys it holds to their values; a key
\* whose value is undefined is a key the object does not hold.
OptionalKeys == {"formInputs", "environmentVariables",
                 "conversationVariables", "ragVariables", "readonly"}

ListKeys == OptionalKeys \ {"readonly"}

Omit(object, keys) == [k \in (DOMAIN object) \ keys |-> object[k]]

\* The value a getter of the node returns for a property that was not given.
FallbackKept(key) == IF key = "readonly" THEN TRUE ELSE <<"undefined">>

Fallback(key) == IF key = "readonly" THEN FALSE ELSE <<>>

FieldOr(object, key) ==
    IF key \in DOMAIN object THEN object[key] ELSE Fallback(key)

\* $createHITLInputNode(variableName, nodeId, formInputs, ...,
\* environmentVariables, conversationVariables, ragVariables, readonly)
CreateHITLInputNode(args) ==
    [type |-> HITLInputNode,
     variableName |-> args.variableName,
     nodeId |-> args.nodeId,
     formInputs |-> FieldOr(args, "formInputs"),
     environmentVariables |-> FieldOr(args, "environmentVariables"),
     conversationVariables |-> FieldOr(args, "conversationVariables"),
     ragVariables |-> FieldOr(args, "ragVariables"),
     readonly |-> FieldOr(args, "readonly")]

\* node.exportJSON(), HITLInputNode.importJSON(serialized) and
\* HITLInputNode.clone(node)
ExportJSON(node) ==
    [type |-> "hitl-input-block", version |-> 1,
     variableName |-> node.variableName,
     nodeId |-> node.nodeId,
     formInputs |-> node.formInputs,
     environmentVariables |-> node.environmentVariables,
     conversationVariables |-> node.conversationVariables,
     ragVariables |-> node.ragVariables,
     readonly |-> node.readonly]

ImportJSON(serialized) == CreateHITLInputNode(serialized)

CloneNode(node) == node

\* The values the properties of a node are given.
FormInputLists == {<<>>, <<InsertPayloadName>>}

VarLists == {<<>>, <<"var_a">>}

HITLArgs ==
    {Omit([variableName |-> InsertPayloadName, nodeId |-> "node-1",
           formInputs |-> f, environmentVariables |-> ev,
           conversationVariables |-> cv, ragVariables |-> rv,
           readonly |-> ro], omitted) :
        f \in FormInputLists, ev \in VarLists, cv \in VarLists,
        rv \in VarLists, ro \in BOOLEAN,
        omitted \in SUBSET (OptionalKeys \ {"formInputs"})}

\* A node is created from the arguments of a caller.
NodeCreated(e, args) ==
    /\ last' = [NoLast EXCEPT !.editor = e, !.command = "create",
                              !.json = args,
                              !.node = CreateHITLInputNode(args)]
    /\ UNCHANGED <<doc, sel, mounted, props, timers, ref, hist>>

\* The node is serialized.
NodeExported(e) ==
    /\ last.command \in {"create", "import", "clone"}
    /\ last' = [NoLast EXCEPT !.editor = e, !.command = "export",
                              !.json = ExportJSON(last.node),
                              !.node = last.node]
    /\ UNCHANGED <<doc, sel, mounted, props, timers, ref, hist>>

\* A serialized node, with some of its optional properties left out, is
\* imported.
NodeImported(e, omitted) ==
    /\ last.command = "export"
    /\ \E serialized \in {Omit(last.json, omitted)} :
          last' = [NoLast EXCEPT !.editor = e, !.command = "import",
                                 !.json = serialized,
                                 !.node = ImportJSON(serialized)]
    /\ UNCHANGED <<doc, sel, mounted, props, timers, ref, hist>>

\* The node is cloned.
NodeCloned(e) ==
    /\ last.command \in {"create", "import"}
    /\ last' = [last EXCEPT !.command = "clone",
                            !.node = CloneNode(last.node)]
    /\ UNCHANGED <<doc, sel, mounted, props, timers, ref, hist>>

InitImport ==
    /\ doc = [e \in Editors |-> EmptyDoc]
    /\ sel = [e \in Editors |-> NoSelection]
    /\ mounted = [e \in Editors |-> {}]
    /\ props = [e \in Editors |-> <<>>]
    /\ timers = [e \in Editors |-> {}]
    /\ ref = [e \in Editors |-> 0]
    /\ last = NoLast
    /\ hist = [e \in Editors |-> NoHist]

NextImport ==
    \E e \in BlurEditors :
       \/ \E args \in HITLArgs : NodeCreated(e, args)
       \/ NodeExported(e)
       \/ \E omitted \in SUBSET OptionalKeys : NodeImported(e, omitted)
       \/ NodeCloned(e)

SpecImport == InitImport /\ [][NextImport]_vars

----------------------------------------------------------------------------
(* The variable block plugin: the commands that insert text *)

MaxVarLen == 4      \* the root text grows up to MaxVarLen characters

VariableBlock == "VariableBlock"

INSERT_VARIABLE_BLOCK_COMMAND == "INSERT_VARIABLE_BLOCK_COMMAND"
INSERT_VARIABLE_VALUE_BLOCK_COMMAND == "INSERT_VARIABLE_VALUE_BLOCK_COMMAND"

VariableCommands == {INSERT_VARIABLE_BLOCK_COMMAND,
                     INSERT_VARIABLE_VALUE_BLOCK_COMMAND}

\* The payloads of the value command: 'user.name', shortened, and others.
ValuePayloads == {<<"u", ".", "n">>, <<"a">>, <<"{", "{">>}

\* The text the handler of a command makes a text node of: an opening brace,
\* or the value the command carries.
VariableTextBrace(command, payload) == <<"{">>

VariableText(command, payload) ==
    IF command = INSERT_VARIABLE_BLOCK_COMMAND THEN <<"{">> ELSE payload

\* editor.dispatchCommand(INSERT_VARIABLE_BLOCK_COMMAND, undefined) and
\* editor.dispatchCommand(INSERT_VARIABLE_VALUE_BLOCK_COMMAND, value).  The
\* handler inserts a text node at the selection, or at the end of the root
\* when there is none, and reports handled; the text joins the plain text run
\* next to it, and the selection is collapsed after it.  No replacement
\* plugin is mounted next to the variable block, so no transform runs.
DispatchVariable(e, command, payload) ==
    /\ command = INSERT_VARIABLE_BLOCK_COMMAND => payload = <<>>
    /\ \E text \in {VariableText(command, payload)},
          caret \in {InsertionPoint(e)} :
          /\ Len(RootText(doc[e])) + Len(text) <= MaxVarLen
          /\ LET started == [NoLast EXCEPT
                               !.editor = e, !.command = command,
                               !.input = payload, !.before = doc[e],
                               !.at = TextOffset(doc[e], caret),
                               !.target = IF caret = RootEnd(doc[e])
                                             THEN "end" ELSE "inside",
                               !.registered = VariableBlock \in mounted[e]]
             IN  IF VariableBlock \in mounted[e]
                    THEN /\ doc' = [doc EXCEPT ![e] =
                                      [@ EXCEPT ![caret.at[1]] =
                                          TextInserted(@, caret.at[2],
                                                       caret.offset, text)]]
                         /\ sel' = [sel EXCEPT ![e] =
                                      CaretAfterText(doc[e], caret, text)]
                         /\ last' = [started EXCEPT
                                       !.handled = TRUE,
                                       !.change = OnChangeCalls(doc[e], doc'[e])]
                    ELSE /\ last' = started
                         /\ UNCHANGED <<doc, sel>>
    /\ UNCHANGED <<mounted, props, timers, ref, hist>>

\* The plugin is mounted, and unmounted: its handlers are registered and
\* unregistered.
MountVariableBlock(e) ==
    /\ VariableBlock \notin mounted[e]
    /\ mounted' = [mounted EXCEPT ![e] = @ \cup {VariableBlock}]
    /\ last' = [NoLast EXCEPT !.editor = e, !.command = "mount"]
    /\ UNCHANGED <<doc, sel, props, timers, ref, hist>>

UnmountVariableBlock(e) ==
    /\ VariableBlock \in mounted[e]
    /\ mounted' = [mounted EXCEPT ![e] = @ \ {VariableBlock}]
    /\ last' = [NoLast EXCEPT !.editor = e, !.command = "unmount"]
    /\ UNCHANGED <<doc, sel, props, timers, ref, hist>>

\* An editor with the text node class registered and the variable block
\* mounted.
InitVar ==
    /\ doc = [e \in Editors |-> EmptyDoc]
    /\ sel = [e \in Editors |-> NoSelection]
    /\ mounted = [e \in Editors |-> {VariableBlock}]
    /\ props = [e \in Editors |->
                  [onBlur |-> TRUE, onFocus |-> TRUE, value |-> <<>>,
                   data |-> NoData, nodes |-> {CustomTextNode}]]
    /\ timers = [e \in Editors |-> {}]
    /\ ref = [e \in Editors |-> 0]
    /\ last = NoLast
    /\ hist = [e \in Editors |-> NoHist]

NextVar ==
    \E e \in BlurEditors :
       \/ DispatchVariable(e, INSERT_VARIABLE_BLOCK_COMMAND, <<>>)
       \/ \E payload \in ValuePayloads :
             DispatchVariable(e, INSERT_VARIABLE_VALUE_BLOCK_COMMAND, payload)
       \/ SelectRootEnd(e)
       \/ SelectRootStart(e)
       \/ MountVariableBlock(e)
       \/ UnmountVariableBlock(e)

SpecVar == InitVar /\ [][NextVar]_vars

----------------------------------------------------------------------------
(* Text entities: a variable value block is a text node of its own class,   *)
(* registered with registerLexicalTextEntity.  Its text can be edited, and  *)
(* the reverse transform takes the class away from a node whose text is no  *)
(* token any more.                                                          *)

MaxEdits == 2       \* the user edits the text up to MaxEdits times

\* The format bitmasks of the text: plain, bold, and bold with underline.
Formats == {0, 1, 9}

\* The characters the user types.
TypedChars == {"a", "}"}

VariableValueBlock == "VariableValueBlock"

VariableToken == <<"{", "{", "v", "_", "1", "}", "}">>

\* $isTextNode(node): nodes whose text the user edits.
IsTextNode(node) == node.type \in {CustomTextNode, VariableValueBlockNode}

\* replaceWithSimpleText(node): a plain text node with the node's text and
\* the node's format replaces it.
ReplaceWithSimpleTextPlain(node) == TextNode(node.text)

ReplaceWithSimpleText(node) == FormattedText(node.text, node.format)

\* The reverse transform on a node of the target class: without a match of
\* the class's matcher at the start of the text the node becomes plain text;
\* text after the match is split off as plain text.
ReverseNodeTransform(node) ==
    IF node.type # VariableValueBlockNode THEN <<node>>
    ELSE LET match == GetMatch(VariableValueBlockNode, node.text)
         IN  IF match = NoMatch \/ match.start # 0
                THEN <<ReplaceWithSimpleText(node)>>
             ELSE IF match.end < Len(node.text)
                THEN <<[node EXCEPT !.text = Slice(node.text, 0, match.end)],
                       FormattedText(Slice(node.text, match.end,
                                           Len(node.text)), node.format)>>
                ELSE <<node>>

RECURSIVE ReverseTransformed(_)
ReverseTransformed(nodes) ==
    IF nodes = <<>> THEN <<>>
    ELSE ReverseNodeTransform(Head(nodes)) \o ReverseTransformed(Tail(nodes))

\* The paragraph once an update that edited it is committed: the reverse
\* transform runs on the entity nodes, the transforms of the replacement
\* plugins on the plain text, which is normalised.
CommittedNodes(nodes, data) ==
    DocOf(<<TransformNodes(MergeText(ReverseTransformed(nodes)), data)>>)[1]

\* The caret in the text of a node, at an offset of the paragraph's text.
TextBefore(nodes, n) == Len(ParagraphText(SubSeq(nodes, 1, n - 1)))

Anchor(n, k) == [type |-> "text", at |-> <<1, n>>, offset |-> k]

AnchorAt(nodes, offset) ==
    LET hits == {n \in 1..Len(nodes) :
                   /\ IsTextNode(nodes[n])
                   /\ TextBefore(nodes, n) <= offset
                   /\ offset <= TextBefore(nodes, n) + Len(nodes[n].text)}
    IN  IF hits = {} THEN NoSelection
        ELSE LET n == CHOOSE h \in hits : \A other \in hits : h <= other
             IN  Anchor(n, offset - TextBefore(nodes, n))

\* The user puts the caret into the text of a node.
PlaceCaret(e, n, k) ==
    /\ n \in 1..Len(doc[e][1])
    /\ IsTextNode(doc[e][1][n])
    /\ k \in 0..Len(doc[e][1][n].text)
    /\ sel[e] # Anchor(n, k)
    /\ sel' = [sel EXCEPT ![e] = Anchor(n, k)]
    /\ last' = [NoLast EXCEPT !.editor = e, !.command = "select",
                              !.change = OnChangeCalls(doc[e], doc[e])]
    /\ UNCHANGED <<doc, mounted, props, timers, ref, hist>>

\* The text of a node with a character typed at, or removed before, an
\* offset.
TypedInto(text, k, c) == Slice(text, 0, k) \o <<c>> \o Slice(text, k, Len(text))

ErasedFrom(text, k) == Slice(text, 0, k - 1) \o Slice(text, k, Len(text))

\* An update that edits the text of the node the caret is in, committed with
\* its transforms.  A node left without text is removed.
EditText(e, command, input, text, offset) ==
    \E n \in {sel[e].at[2]} :
    \E edited \in {[doc[e][1][n] EXCEPT !.text = text]} :
    \E dirty \in {IF text = <<>> THEN RemoveAt(doc[e][1], n)
                  ELSE [doc[e][1] EXCEPT ![n] = edited]} :
    \E nodes \in {CommittedNodes(dirty, props[e].data)} :
       /\ doc' = [doc EXCEPT ![e] = <<nodes>>]
       /\ sel' = [sel EXCEPT ![e] =
                    AnchorAt(nodes, TextBefore(doc[e][1], n) + offset)]
       /\ last' = [NoLast EXCEPT
                     !.editor = e, !.command = command, !.input = input,
                     !.before = doc[e], !.at = n,
                     !.node = edited,
                     !.made = ReverseNodeTransform(edited),
                     !.handled = TRUE,
                     !.change = OnChangeCalls(doc[e], doc'[e])]
       /\ hist' = [hist EXCEPT ![e].edits = @ + 1]
       /\ UNCHANGED <<mounted, props, timers, ref>>

TypeChar(e, c) ==
    /\ sel[e].type = "text"
    /\ hist[e].edits < MaxEdits
    /\ EditText(e, "type", <<c>>,
                TypedInto(doc[e][1][sel[e].at[2]].text, sel[e].offset, c),
                sel[e].offset + 1)

Backspace(e) ==
    /\ sel[e].type = "text"
    /\ sel[e].offset > 0
    /\ hist[e].edits < MaxEdits
    /\ EditText(e, KEY_BACKSPACE_COMMAND, <<>>,
                ErasedFrom(doc[e][1][sel[e].at[2]].text, sel[e].offset),
                sel[e].offset - 1)

\* An editor whose paragraph holds a variable value block of some format,
\* alone or after plain text of that format, with the plugin of the variable
\* value block mounted.
InitEntity ==
    /\ \E format \in Formats, lead \in {<<>>, <<"a">>} :
          doc = [e \in Editors |->
                   IF e \in BlurEditors
                      THEN <<(IF lead = <<>> THEN <<>>
                              ELSE <<FormattedText(lead, format)>>)
                             \o <<[CreateNode(VariableValueBlockNode,
                                              VariableToken, NoData)
                                     EXCEPT !.format = format]>>>>
                      ELSE EmptyDoc]
    /\ sel = [e \in Editors |-> NoSelection]
    /\ mounted = [e \in Editors |-> {VariableValueBlock}]
    /\ props = [e \in Editors |->
                  [onBlur |-> TRUE, onFocus |-> TRUE, value |-> <<>>,
                   data |-> NoData,
                   nodes |-> {CustomTextNode, VariableValueBlockNode}]]
    /\ timers = [e \in Editors |-> {}]
    /\ ref = [e \in Editors |-> 0]
    /\ last = NoLast
    /\ hist = [e \in Editors |-> NoHist]

NextEntity ==
    \E e \in BlurEditors :
       \/ \E n \in 1..Len(doc[e][1]) :
          \E k \in 0..Len(RootText(doc[e])) : PlaceCaret(e, n, k)
       \/ \E c \in TypedChars : TypeChar(e, c)
       \/ Backspace(e)

SpecEntity == InitEntity /\ [][NextEntity]_vars

----------------------------------------------------------------------------
(* Content-sync events: the components of the context blocks and of the    *)
(* history blocks keep what they show in a state of their own, which starts *)
(* as the payload of their node and follows the events of the emitter.      *)

UPDATE_DATASETS_EVENT_EMITTER ==
    "prompt-editor-context-block-update-datasets"
UPDATE_HISTORY_EVENT_EMITTER == "prompt-editor-history-block-update-role"

SyncEvents == {UPDATE_DATASETS_EVENT_EMITTER, UPDATE_HISTORY_EVENT_EMITTER,
               "some-other-event"}

\* The payloads of the events: lists of dataset ids, or of role names.
SyncPayloads == {<<>>, <<"3">>, <<"1", "3">>}

\* The texts of the documents the events meet.
SyncTexts ==
    {<<"a">>, CONTEXT_PLACEHOLDER_TEXT, HISTORY_PLACEHOLDER_TEXT,
     CONTEXT_PLACEHOLDER_TEXT \o <<"a">> \o HISTORY_PLACEHOLDER_TEXT,
     CONTEXT_PLACEHOLDER_TEXT \o CONTEXT_PLACEHOLDER_TEXT,
     HISTORY_PLACEHOLDER_TEXT \o QUERY_PLACEHOLDER_TEXT}

\* Whether the subscriber of the component of a node takes an event: the
\* component of a context block takes the datasets, the component of a
\* history block the role names.
SyncAppliesToAll(type, kind) == kind \in {ContextBlockNode, HistoryBlockNode}

SyncApplies(type, kind) ==
    \/ type = UPDATE_DATASETS_EVENT_EMITTER /\ kind = ContextBlockNode
    \/ type = UPDATE_HISTORY_EVENT_EMITTER /\ kind = HistoryBlockNode

\* useState(datasets), useState(roleName): what the components of the nodes
\* of a paragraph show when they are mounted.
ShownAtMount(nodes) == [j \in 1..Len(nodes) |-> nodes[j].data]

\* eventEmitter.emit(event): the subscriber of every component is called; a
\* component that takes the event shows its payload from then on.  No
\* editor is updated.
EmitContent(type, payload) ==
    /\ props' = [e \in Editors |->
                   [props[e] EXCEPT !.shown =
                      [j \in 1..Len(doc[e][1]) |->
                         IF SyncApplies(type, doc[e][1][j].type)
                            THEN payload ELSE @[j]]]]
    /\ last' = [NoLast EXCEPT !.command = type, !.input = payload,
                              !.handled = \E e \in Editors :
                                 \E j \in 1..Len(doc[e][1]) :
                                    SyncApplies(type, doc[e][1][j].type)]
    /\ UNCHANGED <<doc, sel, mounted, timers, ref, hist>>

\* Two editors, each with a document loaded from a text with the data the
\* host gave; the components of the nodes are mounted.
InitSync ==
    /\ \E texts \in [Editors -> SyncTexts], data \in Payloads :
          /\ doc = [e \in Editors |->
                      Transformed(<<<<TextNode(texts[e])>>>>, data)]
          /\ props = [e \in Editors |->
                        [onBlur |-> TRUE, onFocus |-> TRUE,
                         value |-> texts[e], data |-> data, nodes |-> Kinds,
                         onInsert |-> TRUE, onDelete |-> TRUE,
                         shown |-> ShownAtMount(
                            Transformed(<<<<TextNode(texts[e])>>>>, data)[1])]]
    /\ sel = [e \in Editors |-> NoSelection]
    /\ mounted = [e \in Editors |->
                    {PluginOf(ContextBlockNode), PluginOf(HistoryBlockNode)}]
    /\ timers = [e \in Editors |-> {}]
    /\ ref = [e \in Editors |-> 0]
    /\ last = NoLast
    /\ hist = [e \in Editors |-> NoHist]

NextSync ==
    \/ \E type \in SyncEvents, payload \in SyncPayloads :
          EmitContent(type, payload)
    \/ \E e \in Editors, at \in {1} \X (1..3) : ClickNode(e, at)

SpecSync == InitSync /\ [][NextSync]_vars

----------------------------------------------------------------------------
(* The delay window: while the timeout of a blur is pending, the editor     *)
(* takes the commands of the editor-root plugin and of the command plugins  *)
(* and commits updates.                                                     *)

WindowKinds == {ContextBlockNode, QueryBlockNode}

WindowTexts == {<<"a">>, CONTEXT_PLACEHOLDER_TEXT \o <<"a">>}

\* An editor with OnBlurBlock and the plugins of two kinds mounted, an empty
\* document and a text the host sets as the root text.
InitWindow ==
    /\ doc = [e \in Editors |-> EmptyDoc]
    /\ sel = [e \in Editors |-> NoSelection]
    /\ mounted = [e \in Editors |->
                    {OnBlurBlock} \cup {PluginOf(kind) : kind \in WindowKinds}]
    /\ \E text \in WindowTexts :
          props = [e \in Editors |->
                     [onBlur |-> TRUE, onFocus |-> TRUE,
                      value |-> IF e \in BlurEditors THEN text ELSE <<>>,
                      data |-> NoData, nodes |-> Kinds,
                      onInsert |-> TRUE, onDelete |-> TRUE]]
    /\ timers = [e \in Editors |-> {}]
    /\ ref = [e \in Editors |-> 0]
    /\ last = NoLast
    /\ hist = [e \in Editors |-> NoHist]

NextWindow ==
    \/ \E e \in BlurEditors, target \in RelatedTargets : DispatchBlur(e, target)
    \/ \E e \in BlurEditors : DispatchFocus(e)
    \/ \E e \in BlurEditors : DispatchClear(e)
    \/ \E e \in BlurEditors : UnmountOnBlurBlock(e)
    \/ \E e \in BlurEditors, kind \in WindowKinds : DispatchInsert(e, kind)
    \/ \E e \in BlurEditors, kind \in WindowKinds : DispatchDelete(e, kind)
    \/ \E e \in BlurEditors : SetEditorRootText(e)
    \/ AdvanceTimers

SpecWindow == InitWindow /\ [][NextWindow]_vars

----------------------------------------------------------------------------
(* The transform loop, one replacement at a time: a transform that finds a  *)
(* match in a plain text run splits the run, replaces the matched piece by  *)
(* the node of its kind and leaves the pieces around it to be scanned.      *)

MaxLoopSegs == 2    \* a text to transform is made of up to MaxLoopSegs segments

\* The segments of the texts: a token of a fixed kind, of the human-input
\* kind and of the variable kind, a token cut short, and a line break.
LoopSegments ==
    << <<"\n">>, CONTEXT_PLACEHOLDER_TEXT,
       HITL_PREFIX \o InsertPayloadName \o HITL_SUFFIX, VariableToken,
       <<"{", "{", "#", "c", "o", "n", "t", "e", "x">> >>

RECURSIVE LoopTextsOf(_)
LoopTextsOf(n) ==
    IF n = 0 THEN {<<>>}
    ELSE LET shorter == LoopTextsOf(n - 1)
         IN  shorter \cup {t \o LoopSegments[i] :
                              t \in shorter, i \in 1..Len(LoopSegments)}

LoopTexts == LoopTextsOf(MaxLoopSegs)

\* The sets of kinds whose transforms are registered with an editor.
LoopKindSets ==
    {Kinds, {ContextBlockNode}, {HITLInputNode, VariableValueBlockNode}}

\* The first of the registered kinds, in the order of registration, whose
\* matcher finds its token in the text (0 when none does).
RECURSIVE FirstMatchingFrom(_, _, _)
FirstMatchingFrom(i, kinds, text) ==
    IF i > Len(KindOrder) THEN 0
    ELSE IF KindOrder[i] \in kinds /\ GetMatch(KindOrder[i], text) # NoMatch
       THEN i
       ELSE FirstMatchingFrom(i + 1, kinds, text)

FirstMatchingOf(kinds, text) == FirstMatchingFrom(1, kinds, text)

\* Whether a transform has work on a node: it is a plain text run in which a
\* registered kind matches.
HasMatch(node, kinds) ==
    /\ IsSimpleText(node)
    /\ FirstMatchingOf(kinds, GetTextContent(node)) # 0

\* splitText at the match m, createNode of the matched piece, replace: the
\* pieces that take the place of the run.
SplitAndReplaceKeepsToken(node, kind, m, data) ==
    LET text == GetTextContent(node)
        matched == Slice(text, m.start, m.end)
    IN  <<[node |-> CreateNode(kind, matched, data), created |-> TRUE,
           matched |-> matched, scanned |-> TRUE],
          Scanned(node)>>

SplitAndReplace(node, kind, m, data) ==
    LET text == GetTextContent(node)
        before == Slice(text, 0, m.start)
        matched == Slice(text, m.start, m.end)
        after == Slice(text, m.end, Len(text))
    IN  (IF before = <<>> THEN <<>>
         ELSE <<Scanned(FormattedText(before, node.format))>>)
        \o <<[node |-> CreateNode(kind, matched, data), created |-> TRUE,
              matched |-> matched, scanned |-> TRUE]>>
        \o (IF after = <<>> THEN <<>>
            ELSE <<Scanned(FormattedText(after, node.format))>>)

\* One turn of the loop on the node at a position of the document: the
\* transform of the first registered kind that matches replaces its match.
TransformStep(e, at) ==
    /\ at[1] \in 1..Len(doc[e])
    /\ at[2] \in 1..Len(doc[e][at[1]])
    /\ IsSimpleText(doc[e][at[1]][at[2]])
    /\ \E node \in {doc[e][at[1]][at[2]]} :
       \E i \in {FirstMatchingOf(props[e].nodes, GetTextContent(node))} :
          /\ i # 0
          /\ \E m \in {GetMatch(KindOrder[i], GetTextContent(node))} :
             \E pieces \in {SplitAndReplace(node, KindOrder[i], m,
                                             props[e].data)} :
             \E nodes \in {[j \in 1..Len(pieces) |-> pieces[j].node]} :
                /\ doc' = [doc EXCEPT ![e][at[1]] =
                              SubSeq(@, 1, at[2] - 1) \o nodes
                                 \o SubSeq(@, at[2] + 1, Len(@))]
                /\ last' = [last EXCEPT
                              !.editor = e, !.command = "transform",
                              !.kind = KindOrder[i],
                              !.made = @ \o SelectSeq(pieces,
                                               LAMBDA piece : piece.created),
                              !.onInsert = @ + (IF KindOrder[i] \in DecoratorKinds
                                                THEN 1 ELSE 0)]
    /\ UNCHANGED <<sel, mounted, props, timers, ref, hist>>

\* An editor whose state was built from a text, with the transforms of a set
\* of kinds registered, before the first of them has run.
InitLoop ==
    /\ \E text \in LoopTexts, kinds \in LoopKindSets :
          /\ doc = [e \in Editors |->
                      IF e \in BlurEditors THEN TextToEditorState(text)
                      ELSE EmptyDoc]
          /\ props = [e \in Editors |->
                        [onBlur |-> TRUE, onFocus |-> TRUE,
                         value |-> IF e \in BlurEditors THEN text ELSE <<>>,
                         data |-> NoData, nodes |-> kinds,
                         onInsert |-> TRUE, onDelete |-> TRUE]]
          /\ last = [NoLast EXCEPT !.input = text,
                                   !.before = TextToEditorState(text)]
    /\ sel = [e \in Editors |-> NoSelection]
    /\ mounted = [e \in Editors |-> {}]
    /\ timers = [e \in Editors |-> {}]
    /\ ref = [e \in Editors |-> 0]
    /\ hist = [e \in Editors |-> NoHist]

NextLoop ==
    \E e \in BlurEditors, at \in (1..(MaxLoopSegs + 1)) \X (1..(2 * MaxLoopSegs + 1)) :
       TransformStep(e, at)

SpecLoop == InitLoop /\ [][NextLoop]_vars

\* The loop runs as long as a transform has work.
SpecLoopFair == SpecLoop /\ WF_vars(NextLoop)

----------------------------------------------------------------------------
(* Insert and delete, one after the other: the insert command of a kind,    *)
(* a click on the node it made, and Backspace or Delete.                    *)

RoundKinds == {ContextBlockNode, QueryBlockNode}

RoundTexts ==
    {<<>>, <<"a", "b">>, CONTEXT_PLACEHOLDER_TEXT, QUERY_PLACEHOLDER_TEXT,
     <<"a">> \o CONTEXT_PLACEHOLDER_TEXT, QUERY_PLACEHOLDER_TEXT \o <<"a">>}

\* The document an editor shows for a text of the host.
LoadedDoc(text, data) ==
    IF text = <<>> THEN EmptyDoc
    ELSE Transformed(TextToEditorState(text), data)

\* Where the user may have put the caret in a document: nowhere, at the
\* start or the end of the root, or one character into its first text run.
RoundCarets(d) ==
    {NoSelection, RootStart(d), RootEnd(d)}
    \cup (IF d[1] # <<>> /\ IsSimpleText(d[1][1]) /\ Len(d[1][1].text) > 1
             THEN {TextCaret(1, 0, 1)} ELSE {})

InitRound ==
    /\ \E text \in RoundTexts, data \in Payloads :
          /\ doc = [e \in Editors |->
                      IF e \in BlurEditors THEN LoadedDoc(text, data)
                      ELSE EmptyDoc]
          /\ props = [e \in Editors |->
                        [onBlur |-> TRUE, onFocus |-> TRUE,
                         value |-> IF e \in BlurEditors THEN text ELSE <<>>,
                         data |-> data, nodes |-> Kinds,
                         onInsert |-> TRUE, onDelete |-> TRUE]]
          /\ \E caret \in RoundCarets(LoadedDoc(text, data)) :
                sel = [e \in Editors |->
                         IF e \in BlurEditors THEN caret ELSE NoSelection]
    /\ mounted = [e \in Editors |-> Plugins]
    /\ timers = [e \in Editors |-> {}]
    /\ ref = [e \in Editors |-> 0]
    /\ last = NoLast
    /\ hist = [e \in Editors |-> NoHist]

\* The insert command, then a click on the node that stands before the
\* caret the insert left, then a key.
NextRound ==
    \/ \E e \in BlurEditors, kind \in RoundKinds :
          /\ last.command \notin InsertCommands \cup {"click"}
          /\ DispatchInsert(e, kind)
    \/ \E e \in BlurEditors :
          /\ last.command \in InsertCommands
          /\ last.handled
          /\ ClickNode(e, sel[e].at)
    \/ \E e \in BlurEditors, key \in {KEY_DELETE_COMMAND, KEY_BACKSPACE_COMMAND} :
          /\ last.command = "click"
          /\ PressKey(e, key)

SpecRound == InitRound /\ [][NextRound]_vars

----------------------------------------------------------------------------
(* Two editors on one page: each has its own OnBlurBlock, its own command   *)
(* plugins and its own callbacks; the clock is the one they share.          *)

PageKinds == {ContextBlockNode}

InitPage ==
    /\ doc = [e \in Editors |-> EmptyDoc]
    /\ sel = [e \in Editors |-> NoSelection]
    /\ mounted = [e \in Editors |->
                    {OnBlurBlock} \cup {PluginOf(kind) : kind \in PageKinds}]
    /\ \E given \in [Editors -> BOOLEAN] :
          props = [e \in Editors |->
                     [onBlur |-> TRUE, onFocus |-> TRUE, value |-> <<>>,
                      data |-> NoData, nodes |-> Kinds,
                      onInsert |-> given[e], onDelete |-> given[e]]]
    /\ timers = [e \in Editors |-> {}]
    /\ ref = [e \in Editors |-> 0]
    /\ last = NoLast
    /\ hist = [e \in Editors |-> NoHist]

NextPage ==
    \/ \E e \in Editors : DispatchBlur(e, "button")
    \/ \E e \in Editors : DispatchClear(e)
    \/ \E e \in Editors, kind \in PageKinds : DispatchInsert(e, kind)
    \/ \E e \in Editors, kind \in PageKinds : DispatchDelete(e, kind)
    \/ AdvanceTimers

SpecPage == InitPage /\ [][NextPage]_vars

----------------------------------------------------------------------------
(* Properties of the editor-root plugin *)

C9_OnBlurOnEveryBlur ==
    (last.command = BLUR_COMMAND /\ last.handled /\ last.hasOnBlur) =>
        last.onBlur = 1

\* C9, amended: a BLUR the plugin handles calls the host's onBlur exactly
\* once and sets the timeout when its related target is not the search input;
\* both depend on the target.
C9_OnBlurUnlessSearchTarget ==
    (last.command = BLUR_COMMAND /\ last.handled /\ ~IsVarSearchInput(last.target)) =>
        /\ last.scheduled
        /\ last.onBlur = (IF last.hasOnBlur THEN 1 ELSE 0)

C9_Witness ==
    /\ last.command = BLUR_COMMAND
    /\ last.handled
    /\ last.target = "button"
    /\ last.onBlur = 1

\* C10: a BLUR whose related target is the search input is reported handled,
\* calls onBlur not at all and sets no timeout: no escape command follows it.
C10_SearchTargetSkipsBlur ==
    /\ (last.command = BLUR_COMMAND /\ IsVarSearchInput(last.target)
          /\ last.registered) =>
            /\ last.handled
            /\ last.onBlur = 0
            /\ ~last.scheduled
    /\ \A e \in Editors : hist[e].sinceSearch >= 0 => hist[e].escSearch = 0

C10_Witness ==
    /\ last.command = BLUR_COMMAND
    /\ IsVarSearchInput(last.target)
    /\ last.handled
    /\ last.hasOnBlur
    /\ hist[last.editor].sinceSearch >= HIDE_DELAY

----------------------------------------------------------------------------
(* Properties of loading a value *)

\* C1: after a value has been loaded (split into lines, the transforms run
\* until no matcher matches), the text the editor reports, the paragraphs'
\* texts joined by a line break with every node giving its text content, is
\* exactly the value loaded; this holds for the empty value too.
C1_LoadThenReadIsIdentity ==
    last.command = LOAD => RootText(doc[last.editor]) = last.input

C1_Witness ==
    /\ last.command = LOAD
    /\ Len(doc[last.editor]) >= 2
    /\ Len(last.made) >= 2
    /\ RootText(doc[last.editor]) = last.input

\* C2: every node a kind's factory makes of a matched text has that matched
\* text as its text content, for the fixed tokens of the seven decorator
\* kinds and for the tokens that carry a name.
C2_FactoryKeepsMatchedText ==
    /\ \A i \in 1..Len(last.made) :
          GetTextContent(last.made[i].node) = last.made[i].matched
    /\ \A kind \in FixedKinds :
          GetTextContent(CreateNode(kind, PlaceholderText(kind), NoData)) = PlaceholderText(kind)

C2_Witness ==
    /\ last.command = LOAD
    /\ \E i, j, k \in 1..Len(last.made) :
          /\ last.made[i].node.type = HITLInputNode
          /\ last.made[i].node.name = <<"u", "_", "1">>
          /\ last.made[j].node.type = VariableValueBlockNode
          /\ last.made[k].node.type = HistoryBlockNode
          /\ GetTextContent(last.made[k].node) = HISTORY_PLACEHOLDER_TEXT

\* C3: running the transforms again on a document whose placeholders are all
\* materialised replaces nothing: no factory makes a node, onInsert is not
\* called, the number of nodes of every kind and the text the editor reports
\* are what they were.
C3_RerunReplacesNothing ==
    last.command = RERUN =>
        /\ last.made = <<>>
        /\ last.onInsert = 0
        /\ \A kind \in Kinds \cup {CustomTextNode} :
              GetNodeCount(doc[last.editor], kind) = GetNodeCount(last.before, kind)
        /\ RootText(doc[last.editor]) = RootText(last.before)
        /\ doc[last.editor] = last.before

C3_Witness ==
    /\ last.command = RERUN
    /\ GetNodeCount(last.before, ContextBlockNode) >= 1
    /\ GetNodeCount(last.before, VariableValueBlockNode) >= 1
    /\ GetNodeCount(doc[last.editor], CustomTextNode) >= 1
    /\ last.made = <<>>

----------------------------------------------------------------------------
(* Properties of selecting and deleting *)

\* C4, as claimed: when Backspace or Delete removes a placeholder node, be
\* it the node selection or enclosed by a range selection, and whatever other
\* nodes of its kind the document holds, onDelete is called exactly once and
\* exactly one node is removed: the document holds one node of that kind
\* less and as many nodes of every other kind as before.
C4_DeleteNotifiesOnce ==
    (last.command \in {KEY_DELETE_COMMAND, KEY_BACKSPACE_COMMAND}
       /\ last.kind \in DecoratorKinds) =>
        /\ last.onDelete = 1
        /\ last.removed = 1
        /\ \A kind \in DecoratorKinds :
              GetNodeCount(doc[last.editor], kind) =
                 GetNodeCount(last.before, kind) - (IF kind = last.kind THEN 1 ELSE 0)

----------------------------------------------------------------------------
(* Properties of the plugin UpdateBlock *)

\* C5: an update value event or a quick insert event emitted with an
\* instance id that is not an editor's leaves that editor's document, and so
\* its text, as it was; and an editor's document changes only in the step
\* that emits an event with the editor's instance id, so that no later step
\* delivers an event that was emitted for another instance.
C5_OtherInstanceUntouched ==
    [][\A e \in Editors :
          /\ (last'.command \in BusEvents /\ last'.editor # e) =>
                /\ doc'[e] = doc[e]
                /\ RootText(doc'[e]) = RootText(doc[e])
          /\ doc'[e] # doc[e] =>
                (last'.command \in BusEvents /\ last'.editor = e)]_vars

C5_Witness ==
    /\ last.command = PROMPT_EDITOR_UPDATE_VALUE_BY_EVENT_EMITTER
    /\ last.editor = "instance-2"
    /\ last.input = <<"a">>
    /\ RootText(doc["instance-2"]) = <<"a">>
    /\ RootText(doc["instance-1"]) = CONTEXT_PLACEHOLDER_TEXT \o <<"/">>

----------------------------------------------------------------------------
(* Properties of the command plugins *)

\* C11: the insert and the delete command of a kind are handled exactly while
\* the plugin of the kind is mounted: a dispatch reports handled if and only
\* if the plugin was mounted, and a dispatch after the plugin was torn down
\* reports unhandled, calls neither onInsert nor onDelete and leaves the
\* document as it was.
C11_HandledWhileMounted ==
    last.command \in InsertCommands \cup DeleteCommands =>
       /\ last.handled <=> PluginOf(last.kind) \in mounted[last.editor]
       /\ PluginOf(last.kind) \in hist[last.editor].torn =>
             /\ ~last.handled
             /\ last.onInsert = 0
             /\ last.onDelete = 0
             /\ doc[last.editor] = last.before

\* A plugin was mounted, a node of its kind inserted, the plugin torn down,
\* and then its insert command was dispatched, with onInsert given.
C11_Witness ==
    /\ last.command \in InsertCommands
    /\ PluginOf(last.kind) \in hist[last.editor].torn
    /\ props[last.editor].onInsert
    /\ GetNodeCount(doc[last.editor], last.kind) = 1

\* C12: an insert command dispatched while the plugin of its kind is mounted
\* reports handled, adds exactly one node, of that kind and carrying the data
\* of the plugin and the payload of the command, at the selection point,
\* leaves the other nodes in place and the selection collapsed just after the
\* new node, and calls onInsert once when the host gave it and not otherwise;
\* on an empty document the root text becomes the projection of the kind.
C12_InsertAddsOneNode ==
    (last.command \in InsertCommands /\ last.registered) =>
       LET e == last.editor
           kind == last.kind
           p == Len(last.before)
           nodes == doc[e][p]
           node == nodes[last.at + 1]
           projection == IF kind = HITLInputNode
                            THEN HITL_PREFIX \o InsertPayloadName \o HITL_SUFFIX
                            ELSE PlaceholderText(kind)
       IN  /\ last.handled
           /\ Len(doc[e]) = Len(last.before)
           /\ Len(nodes) = Len(last.before[p]) + 1
           /\ GetNodeCount(doc[e], kind) = GetNodeCount(last.before, kind) + 1
           /\ node.type = kind
           /\ node.data = IF kind \in PayloadKinds THEN props[e].data ELSE NoData
           /\ kind = HITLInputNode => node.name = InsertPayloadName
           /\ GetTextContent(node) = projection
           /\ RemoveAt(nodes, last.at + 1) = last.before[p]
           /\ sel[e] = Caret(p, last.at + 1)
           /\ last.onInsert = IF props[e].onInsert THEN 1 ELSE 0
           /\ last.before = EmptyDoc => RootText(doc[e]) = projection

\* A node that carries data was inserted before the one node of another kind
\* that the document held, with onInsert given.
C12_Witness ==
    /\ last.command \in InsertCommands
    /\ last.handled
    /\ last.target = "inside"
    /\ last.kind \in PayloadKinds
    /\ props[last.editor].data # NoData
    /\ props[last.editor].onInsert
    /\ last.onInsert = 1
    /\ GetNodeCount(last.before, last.kind) = 0
    /\ last.before # EmptyDoc

\* C13: the handler of a delete command only notifies: a delete command
\* dispatched while the plugin of its kind is mounted reports handled, calls
\* onDelete once when the host gave it and not otherwise, and leaves the
\* nodes, the text and the selection of the document as they were, also when
\* the document holds nodes of that kind.
C13_DeleteOnlyNotifies ==
    [][(last'.command \in DeleteCommands /\ last'.registered) =>
          /\ last'.handled
          /\ last'.onDelete = (IF props[last'.editor].onDelete THEN 1 ELSE 0)
          /\ last'.onInsert = 0
          /\ doc' = doc
          /\ RootText(doc'[last'.editor]) = RootText(doc[last'.editor])
          /\ sel' = sel]_vars

\* A delete command was handled, with onDelete given, while the document held
\* a node of the command's kind and a caret.
C13_Witness ==
    /\ last.command \in DeleteCommands
    /\ last.handled
    /\ last.onDelete = 1
    /\ GetNodeCount(doc[last.editor], last.kind) > 0
    /\ sel[last.editor].type = "caret"

\* C14: when a node of kind A is inserted at the end of the document and the
\* next command inserts a node of kind B, the root text ends with the
\* projection of A followed by the projection of B, whatever the two kinds;
\* B never comes to stand before A.
C14_InsertOrderKept ==
    (last.command \in InsertCommands /\ last.handled /\ last.prev # "") =>
       LET text == RootText(doc[last.editor])
           a == GetTextContent(InsertedNode(last.prev, NoData))
           b == GetTextContent(InsertedNode(last.kind, NoData))
       IN  /\ Len(text) >= Len(a) + Len(b)
           /\ Slice(text, Len(text) - Len(a) - Len(b), Len(text)) = a \o b

\* Two nodes of different kinds were inserted one after the other at the end.
C14_Witness ==
    /\ last.command \in InsertCommands
    /\ last.handled
    /\ last.prev \in DecoratorKinds \ {last.kind}
    /\ Len(Flatten(doc[last.editor])) = 2

\* C17: a plugin, a replacement plugin or a node component that is mounted
\* on an editor without its node class throws at once, nothing is mounted,
\* and the error names the class that is missing and no other.
C17_ErrorNamesMissingKind ==
    (last.command = "mount" /\ last.kind \notin props[last.editor].nodes) =>
       /\ Len(last.error) = 1
       /\ last.target \notin mounted[last.editor]
       /\ KindNamed(last.error[1].block) = last.kind

----------------------------------------------------------------------------
(* Properties of the selection and deletion controller *)

\* C15: when Backspace or Delete is pressed while a decorator node is the
\* node selection, the controller of that node prevents the default edit,
\* dispatches the delete command of the node's kind once, removes the node and
\* reports the key handled, so that nothing else acts on the key: the
\* editor's default deletion removes nothing and no other controller
\* dispatches.
C15_SelectedNodeRemoved ==
    (last.command \in {KEY_DELETE_COMMAND, KEY_BACKSPACE_COMMAND}
        /\ last.target = "node") =>
       LET e == last.editor
           at == <<Len(last.before), last.at>>
       IN  /\ last.kind \in DecoratorKinds
           /\ last.handled
           /\ last.prevented
           /\ last.onDelete = 1
           /\ last.byController = 1
           /\ last.byDefault = 0
           /\ GetNodeCount(doc[e], last.kind)
                 = GetNodeCount(last.before, last.kind) - 1
           /\ Len(Flatten(doc[e])) <= Len(Flatten(last.before)) - 1

\* The selected node was removed while another node of its kind stayed.
C15_Witness ==
    /\ last.command \in {KEY_DELETE_COMMAND, KEY_BACKSPACE_COMMAND}
    /\ last.target = "node"
    /\ last.handled
    /\ GetNodeCount(doc[last.editor], last.kind) = 1

\* C16: when Backspace or Delete is pressed while the selection is a range
\* that holds a decorator node, every controller of a node of that kind, none
\* of which is selected, dispatches the delete command of the kind once,
\* removes nothing and reports unhandled; the default is not prevented and the
\* editor's default deletion removes the selected node.
C16_RangeNotifiesOnly ==
    (last.command \in {KEY_DELETE_COMMAND, KEY_BACKSPACE_COMMAND}
        /\ last.target = "range" /\ last.kind \in DecoratorKinds) =>
       LET e == last.editor
       IN  /\ ~last.handled
           /\ ~last.prevented
           /\ last.onDelete = GetNodeCount(last.before, last.kind)
           /\ last.onDelete >= 1
           /\ last.byController = 0
           /\ last.byDefault = 1
           /\ GetNodeCount(doc[e], last.kind)
                 = GetNodeCount(last.before, last.kind) - 1

\* A key was pressed over a range holding the one context block of the
\* document, next to a query block.
C16_Witness ==
    /\ last.command \in {KEY_DELETE_COMMAND, KEY_BACKSPACE_COMMAND}
    /\ last.target = "range"
    /\ last.kind = ContextBlockNode
    /\ last.onDelete = 1
    /\ GetNodeCount(doc[last.editor], QueryBlockNode) = 1

----------------------------------------------------------------------------
(* Properties of the replacement plugins *)

\* C18: once the update that sets the root to one text run is committed, for
\* every kind: a run with exactly one occurrence of the kind's placeholder
\* has made exactly one node of the kind, which carries the data the
\* replacement plugin holds (none for a kind without data), and a run with
\* no occurrence has made no node of the kind.
C18_OneOccurrenceOneNode ==
    last.command = SET_ROOT_TEXT =>
       \A kind \in DecoratorKinds :
          LET e == last.editor
              first == GetMatch(kind, last.input)
              rest == IF first = NoMatch THEN <<>>
                      ELSE Slice(last.input, first.end, Len(last.input))
              nodes == NodesOfKind(doc[e], kind)
          IN  /\ first = NoMatch => Len(nodes) = 0
              /\ (first # NoMatch /\ GetMatch(kind, rest) = NoMatch) =>
                    /\ Len(nodes) = 1
                    /\ nodes[1].data = IF kind \in PayloadKinds
                                          THEN props[e].data ELSE NoData

\* The run 'A {{#context#}} B' was set a second time, after the plugin was
\* given datasets: one context block, carrying them.
C18_Witness ==
    /\ last.command = SET_ROOT_TEXT
    /\ last.onInsert = 1
    /\ last.input = <<"A", " ">> \o CONTEXT_PLACEHOLDER_TEXT \o <<" ", "B">>
    /\ props[last.editor].data # NoData
    /\ GetNodeCount(doc[last.editor], ContextBlockNode) = 1
    /\ GetNodeCount(doc[last.editor], LastRunBlockNode) = 0

\* C19: once the update that introduced a text run is committed, all the
\* placeholders of the run are nodes: no plain text run of the document holds
\* a span that the matcher of a registered kind matches, and of every fixed
\* placeholder the document holds as many nodes as the run had occurrences.
C19_NoPlaceholderLeftAsText ==
    last.command = SET_ROOT_TEXT =>
       LET e == last.editor
           text == last.input
       IN  /\ \A p \in 1..Len(doc[e]) : \A j \in 1..Len(doc[e][p]) :
                 IsSimpleText(doc[e][p][j]) =>
                    \A k \in 1..Len(KindOrder) :
                       GetMatch(KindOrder[k], doc[e][p][j].text) = NoMatch
           /\ \A kind \in FixedKinds :
                 GetNodeCount(doc[e], kind)
                    = Cardinality({i \in 0..(Len(text) - 1) :
                         StartsWithAt(text, PlaceholderText(kind), i)})

\* A run with two context placeholders and a last run placeholder between
\* them was set.
C19_Witness ==
    /\ last.command = SET_ROOT_TEXT
    /\ last.input = CONTEXT_PLACEHOLDER_TEXT \o LAST_RUN_PLACEHOLDER_TEXT
                       \o CONTEXT_PLACEHOLDER_TEXT
    /\ GetNodeCount(doc[last.editor], ContextBlockNode) = 2
    /\ GetNodeCount(doc[last.editor], LastRunBlockNode) = 1

----------------------------------------------------------------------------
(* Properties of the quick insert *)

----------------------------------------------------------------------------
(* Properties of the update value event *)

\* C21: an update value event with the editor's own instance id replaces the
\* whole document: afterwards the root text is exactly the payload of the
\* event, and the document is the one the payload alone makes, whatever text
\* and nodes the document held before.
C21_UpdateReplacesDocument ==
    (last.command = PROMPT_EDITOR_UPDATE_VALUE_BY_EVENT_EMITTER
        /\ last.handled) =>
       LET e == last.editor
       IN  /\ RootText(doc[e]) = last.input
           /\ doc[e] = Transformed(TextToEditorState(last.input), props[e].data)
           /\ Len(doc[e]) = Len(SplitLines(last.input))

\* A document that held a context block and text was replaced by a payload of
\* two lines.
C21_Witness ==
    /\ last.command = PROMPT_EDITOR_UPDATE_VALUE_BY_EVENT_EMITTER
    /\ last.handled
    /\ GetNodeCount(last.before, ContextBlockNode) = 1
    /\ GetNodeCount(last.before, CustomTextNode) = 1
    /\ last.input = <<"a", "\n">> \o QUERY_PLACEHOLDER_TEXT
    /\ GetNodeCount(doc[last.editor], ContextBlockNode) = 0
    /\ GetNodeCount(doc[last.editor], QueryBlockNode) = 1

----------------------------------------------------------------------------
(* Properties of the command bus *)

\* C22: a dispatch calls the handlers registered for the command in the order
\* of their priorities, highest first and handlers of one priority in the
\* order of registration, and stops at the first one that returns handled:
\* every handler before a called one was called and returned unhandled, no
\* handler after one that returned handled is called, the dispatch reports
\* handled if and only if some handler registered for the command returns
\* handled, and a command without a handler reports unhandled.
C22_DispatchStopsAtFirstHandled ==
    last.command \in HostCommands =>
       LET registry == props[last.editor].handlers
           registered == {i \in 1..Len(registry) :
                             registry[i].command = last.command}
           called == {last.invoked[k] : k \in 1..Len(last.invoked)}
           Before(i, j) == \/ registry[i].priority > registry[j].priority
                           \/ /\ registry[i].priority = registry[j].priority
                              /\ i < j
       IN  /\ called \subseteq registered
           /\ Cardinality(called) = Len(last.invoked)
           /\ \A k \in 1..(Len(last.invoked) - 1) :
                 Before(last.invoked[k], last.invoked[k + 1])
           /\ \A i \in called, j \in registered :
                 Before(j, i) => (j \in called /\ ~registry[j].returns)
           /\ last.handled <=> \E i \in registered : registry[i].returns
           /\ last.handled => \E i \in called : registry[i].returns
           /\ ~last.handled => called = registered
           /\ registered = {} => (~last.handled /\ last.invoked = <<>>)

\* The clear command went to a handler of the host that returned unhandled,
\* then to the handler of OnBlurBlock, which cleared a pending timeout and
\* returned handled, and not to the handler the host had registered after it
\* with the same priority.
C22_Witness ==
    /\ last.command = CLEAR_HIDE_MENU_TIMEOUT
    /\ last.handled
    /\ Len(last.invoked) = 2
    /\ props[last.editor].handlers[last.invoked[1]].owner = "host"
    /\ props[last.editor].handlers[last.invoked[2]].owner = OnBlurBlock
    /\ Len(Listeners(props[last.editor].handlers, last.command)) = 3
    /\ hist[last.editor].clearedEarly
    /\ timers[last.editor] = {}

----------------------------------------------------------------------------
(* Properties of onChange *)

\* C23: every step that commits an update of an editor, changing its
\* document or its selection, calls the host's onChange exactly once, with
\* the root text of the state the step has committed: the paragraphs' text
\* contents joined by one line break, in the order of the document.  No call
\* of onChange gives the text of the state before the update or of another
\* state.
C23_OnChangeReportsCommitted ==
    [][/\ \A e \in Editors :
             (doc'[e] # doc[e] \/ sel'[e] # sel[e]) =>
                /\ last'.editor = e
                /\ last'.change = <<RootText(doc'[e])>>
       /\ last'.change # <<>> =>
             /\ last'.editor \in Editors
             /\ Len(last'.change) = 1
             /\ last'.change[1] = RootText(doc'[last'.editor])
             /\ last'.change[1] = JoinLines(doc'[last'.editor])]_vars

\* An update replaced a document by one of two paragraphs, 'a' and a query
\* block, and onChange was called with the two texts joined by a line break.
C23_Witness ==
    /\ last.command = PROMPT_EDITOR_UPDATE_VALUE_BY_EVENT_EMITTER
    /\ last.handled
    /\ Len(doc[last.editor]) = 2
    /\ RootText(last.before) # RootText(doc[last.editor])
    /\ last.before # EmptyDoc
    /\ last.change = <<<<"a", "\n">> \o QUERY_PLACEHOLDER_TEXT>>
    /\ ParagraphText(doc[last.editor][1]) = <<"a">>
    /\ ParagraphText(doc[last.editor][2]) = QUERY_PLACEHOLDER_TEXT

----------------------------------------------------------------------------
(* Properties of the tree *)

\* A document is well-formed: the children of the root are paragraphs, at
\* least one; every node stands in a paragraph, is of a known class and is
\* inline; a decorator node holds no text of its own; and the text content of
\* an isolated node is exactly one token of its kind, not a part of one and
\* not one run together with text around it.
WellFormed(d) ==
    /\ Len(d) >= 1
    /\ \A p \in 1..Len(d) :
          /\ DOMAIN d[p] = 1..Len(d[p])
          /\ \A j \in 1..Len(d[p]) :
                LET node == d[p][j]
                    content == GetTextContent(node)
                IN  /\ DOMAIN node = {"type", "text", "name", "data", "format"}
                    /\ node.type \in Kinds \cup {CustomTextNode}
                    /\ IsInline(node)
                    /\ node.type \in DecoratorKinds => node.text = <<>>
                    /\ IsIsolated(node) =>
                          /\ IsTopLevel(node)
                          /\ GetMatch(node.type, content)
                                = [start |-> 0, end |-> Len(content)]

\* C24: after every transaction, be it an insert command, a replacement by
\* the transforms, a deletion by a key or the host setting the whole text,
\* the tree is well-formed: every placeholder node stands inside a paragraph,
\* an insert command adds its node to the paragraph of the selection and no
\* child to the root, and the isolated human-input nodes are neither split
\* nor merged with the text around them: a step leaves them as they were, but
\* for the one node an insert command adds or a key removes, and a caret
\* never stands inside one.
C24_TreeWellFormed ==
    [][\A e \in BlurEditors :
          LET before == NodesOfKind(doc[e], HITLInputNode)
              after == NodesOfKind(doc'[e], HITLInputNode)
              command == last'.command
              OneMore(longer, shorter) ==
                  \E i \in 1..Len(longer) : RemoveAt(longer, i) = shorter
          IN  /\ WellFormed(doc'[e])
              /\ (command \in InsertCommands /\ last'.handled) =>
                    /\ Len(doc'[e]) = Len(doc[e])
                    /\ IF last'.kind = HITLInputNode
                          THEN OneMore(after, before) ELSE after = before
              /\ command \in {KEY_DELETE_COMMAND, KEY_BACKSPACE_COMMAND} =>
                    /\ Len(doc'[e]) = Len(doc[e])
                    /\ IF last'.kind = HITLInputNode
                          THEN OneMore(before, after) ELSE after = before
              /\ command \notin InsertCommands \cup {SET_ROOT_TEXT,
                       KEY_DELETE_COMMAND, KEY_BACKSPACE_COMMAND} =>
                    after = before
              /\ (sel'[e].type = "caret" /\ sel'[e].offset > 0) =>
                    LET nodes == doc'[e][sel'[e].at[1]]
                        i == sel'[e].at[2]
                    IN  /\ i < Len(nodes)
                        /\ IsSimpleText(nodes[i + 1])
                        /\ sel'[e].offset <= Len(nodes[i + 1].text)]_vars

\* The text "/" was inserted before and after the human-input block that is
\* the paragraph's only other node; the block is as it was made.
C24_Witness ==
    /\ last.command = PROMPT_EDITOR_INSERT_QUICKLY
    /\ last.handled
    /\ Len(doc[last.editor]) = 1
    /\ Len(doc[last.editor][1]) = 3
    /\ doc[last.editor][1][1] = TextNode(<<"/">>)
    /\ IsIsolated(doc[last.editor][1][2])
    /\ doc[last.editor][1][2].name = InsertPayloadName
    /\ doc[last.editor][1][3] = TextNode(<<"/">>)

----------------------------------------------------------------------------
(* Properties of the serialized nodes *)

\* C25: importing a serialized human-input node that leaves out optional
\* properties does not fail, and so does creating one without them: the node
\* and its clone return the empty list for every list that was left out
\* (the form inputs and the three lists of variables), false for readonly
\* when it was left out, and the value given for every property that was
\* given.
C25_ImportFallsBack ==
    last.command \in {"create", "import", "clone"} =>
        /\ last.error = <<>>
        /\ \A key \in ListKeys :
              last.node[key] = IF key \in DOMAIN last.json
                                  THEN last.json[key] ELSE <<>>
        /\ last.node.readonly = IF "readonly" \in DOMAIN last.json
                                   THEN last.json.readonly ELSE FALSE
        /\ last.node.variableName = last.json.variableName

\* A node imported without its form inputs, all else given, is cloned.
C25_Witness ==
    /\ last.command = "clone"
    /\ "type" \in DOMAIN last.json
    /\ OptionalKeys \ DOMAIN last.json = {"formInputs"}
    /\ last.json.environmentVariables = <<"var_a">>
    /\ last.json.readonly
    /\ last.node.formInputs = <<>>

----------------------------------------------------------------------------
(* Properties of the variable block plugin *)

\* C26: while the variable block is mounted, the command that inserts a value
\* with payload p is handled and puts the text p, as it is, where the
\* selection was collapsed: the root text after it is the root text before it
\* with p spliced in at the caret.  With the caret at the end of the document
\* the root text is the text before followed by p, and on an empty document
\* it is p.
C26_ValueInsertedLiterally ==
    (last.command = INSERT_VARIABLE_VALUE_BLOCK_COMMAND /\ last.registered) =>
        LET before == RootText(last.before)
            after == RootText(doc[last.editor])
        IN  /\ last.handled
            /\ after = Slice(before, 0, last.at) \o last.input
                       \o Slice(before, last.at, Len(before))
            /\ last.target = "end" => after = before \o last.input
            /\ last.before = EmptyDoc => after = last.input

\* The value 'u.n' is inserted into an empty document after selectEnd.
C26_Witness ==
    /\ last.command = INSERT_VARIABLE_VALUE_BLOCK_COMMAND
    /\ last.handled
    /\ last.before = EmptyDoc
    /\ last.target = "end"
    /\ last.input = <<"u", ".", "n">>
    /\ RootText(doc[last.editor]) = <<"u", ".", "n">>

----------------------------------------------------------------------------
(* Properties of the transforms on text without a token *)

\* C27: every token of every kind ends with two closing braces, so a value
\* without a closing brace (plain text, the empty value, a token cut short
\* such as {{#contex, an opening brace) holds no token.  The transforms that
\* run when such a value is loaded, and when they run again, raise no error
\* and replace nothing: the document is the one the pass started from, no
\* factory made a node, onInsert was not called, and the document holds as
\* many nodes of every kind as before, which is none.
C27_NoMatchNoReplacement ==
    (/\ last.command \in {LOAD, RERUN}
     /\ \A i \in 1..Len(last.input) : last.input[i] # "}") =>
        /\ last.error = <<>>
        /\ doc[last.editor] = last.before
        /\ doc[last.editor] = TextToEditorState(last.input)
        /\ last.made = <<>>
        /\ last.onInsert = 0
        /\ \A kind \in Kinds \cup {CustomTextNode} :
              GetNodeCount(doc[last.editor], kind)
                 = GetNodeCount(last.before, kind)
        /\ \A kind \in Kinds : GetNodeCount(doc[last.editor], kind) = 0

\* The value `a{{#contex` was loaded and the transforms ran again.
C27_Witness ==
    /\ last.command = RERUN
    /\ last.input = <<"a", "{", "{", "#", "c", "o", "n", "t", "e", "x">>
    /\ doc[last.editor] = last.before
    /\ last.made = <<>>

----------------------------------------------------------------------------
(* Properties of the text entities *)

\* C28: when an edit leaves a variable value block with a text in which the
\* matcher of its class finds no token, the reverse transform replaces the
\* node by one plain text node with the same text and the same format
\* bitmask.  The text of the document is the edited text; unless plain text
\* of the same format stands next to it and is merged with it, the plain
\* text node stands where the block stood.  After every update the text of
\* every variable value block of the document is one token, from its first
\* character to its last.
C28_InvalidEntityBecomesText ==
    /\ \A e \in BlurEditors :
          \A i \in 1..Len(doc[e][1]) :
             doc[e][1][i].type = VariableValueBlockNode =>
                GetMatch(VariableValueBlockNode, doc[e][1][i].text)
                   = [start |-> 0, end |-> Len(doc[e][1][i].text)]
    /\ (/\ last.command \in {"type", KEY_BACKSPACE_COMMAND}
        /\ last.node.type = VariableValueBlockNode
        /\ last.node.text # <<>>
        /\ GetMatch(VariableValueBlockNode, last.node.text) = NoMatch) =>
          LET plain == [type |-> CustomTextNode, text |-> last.node.text,
                        name |-> <<>>, data |-> NoData,
                        format |-> last.node.format]
              before == last.before[1]
              n == last.at
              joins(i) == /\ i \in 1..Len(before)
                          /\ before[i].type = CustomTextNode
                          /\ before[i].format = plain.format
          IN  /\ last.made = <<plain>>
              /\ RootText(doc[last.editor])
                    = ParagraphText(SubSeq(before, 1, n - 1))
                      \o last.node.text
                      \o ParagraphText(SubSeq(before, n + 1, Len(before)))
              /\ (~joins(n - 1) /\ ~joins(n + 1)) =>
                    doc[last.editor][1][n] = plain

\* A closing brace of a bold and underlined block that follows an "a" of the
\* same format is removed: the block becomes text and joins the "a".
C28_Witness ==
    /\ last.command = KEY_BACKSPACE_COMMAND
    /\ last.node.type = VariableValueBlockNode
    /\ last.node.text = <<"{", "{", "v", "_", "1", "}">>
    /\ last.node.format = 9
    /\ last.made = <<FormattedText(<<"{", "{", "v", "_", "1", "}">>, 9)>>
    /\ doc[last.editor]
          = <<<<FormattedText(<<"a", "{", "{", "v", "_", "1", "}">>, 9)>>>>

----------------------------------------------------------------------------
(* Properties of the transforms on nodes that are not plain text *)

\* C29: when the transforms run again on a loaded document, every node that
\* is not a plain text run (a block of any kind that was made before) is
\* passed over: no matcher is called with its text, no factory makes a node
\* of it, and it is the one piece of its own transform.  The pass makes no
\* node, and the nodes that are not plain text are in the document as they
\* were, in the same order.
C29_OnlySimpleTextRewritten ==
    last.command = RERUN =>
        LET e == last.editor
            blocks(d) == SelectSeq(Flatten(d),
                                   LAMBDA node : node.type # CustomTextNode)
        IN  /\ \A i \in 1..Len(blocks(last.before)) :
                  TransformNode(blocks(last.before)[i], props[e].data)
                     = <<[node |-> blocks(last.before)[i], created |-> FALSE,
                          matched |-> <<>>, scanned |-> FALSE]>>
            /\ blocks(doc[e]) = blocks(last.before)
            /\ last.made = <<>>

\* The transforms run again on a document with a context block, text, and a
\* human-input block.
C29_Witness ==
    /\ last.command = RERUN
    /\ Len(doc[last.editor]) = 1
    /\ Len(doc[last.editor][1]) = 3
    /\ doc[last.editor][1][1].type = ContextBlockNode
    /\ doc[last.editor][1][2] = TextNode(<<"a">>)
    /\ doc[last.editor][1][3].type = HITLInputNode
    /\ doc[last.editor] = last.before

----------------------------------------------------------------------------
(* Properties of the content-sync events *)

\* C31: an event that carries updated datasets or updated role names
\* changes only what the materialised nodes of the matching kind show: after
\* a datasets event every context block shows the payload of the event,
\* after a role-names event every history block does, and every other node
\* shows what it showed.  The nodes of every document, their payloads and
\* the root text are as they were.  An event of any other type changes
\* neither what is shown nor any document.
C31_SyncChangesShownOnly ==
    [][last'.command \in SyncEvents =>
         /\ doc' = doc
         /\ \A e \in Editors :
               /\ RootText(doc'[e]) = RootText(doc[e])
               /\ DOMAIN props'[e].shown = 1..Len(doc[e][1])
               /\ \A j \in 1..Len(doc[e][1]) :
                     LET kind == doc[e][1][j].type
                         type == last'.command
                         takes ==
                            \/ /\ type = UPDATE_DATASETS_EVENT_EMITTER
                               /\ kind = ContextBlockNode
                            \/ /\ type = UPDATE_HISTORY_EVENT_EMITTER
                               /\ kind = HistoryBlockNode
                     IN  /\ doc'[e][1][j].data = doc[e][1][j].data
                         /\ props'[e].shown[j] =
                               IF takes THEN last'.input
                                        ELSE props[e].shown[j]]_vars

\* A datasets event with one new dataset met a document with a context
\* block, text and a history block loaded with another dataset: the context
\* block shows the new one, the history block and the nodes do not.
C31_Witness ==
    /\ last.command = UPDATE_DATASETS_EVENT_EMITTER
    /\ last.input = <<"3">>
    /\ Len(doc["instance-1"][1]) = 3
    /\ doc["instance-1"][1][1].type = ContextBlockNode
    /\ doc["instance-1"][1][3].type = HistoryBlockNode
    /\ doc["instance-1"][1][1].data = <<"1">>
    /\ props["instance-1"].shown[1] = <<"3">>
    /\ props["instance-1"].shown[3] = <<"1">>
    /\ props["instance-1"].shown[2] = doc["instance-1"][1][2].data

----------------------------------------------------------------------------
(* Properties of the onInsert callback of the replacement plugins *)

\* C32: when a text is set as the root text and the transforms of the
\* replacement plugins have run, onInsert has been called exactly once for
\* every placeholder occurrence that was materialised into a block: as often
\* as the committed document holds blocks, each of them made by a factory in
\* this pass from the token of its kind.  A pass that materialises no block
\* calls onInsert not at all.
C32_OnInsertOncePerNode ==
    last.command = SET_ROOT_TEXT =>
        LET e == last.editor
            blocks == SelectSeq(Flatten(doc[e]),
                                LAMBDA node : node.type \in DecoratorKinds)
            madeBlocks == SelectSeq(last.made,
                             LAMBDA piece : piece.node.type \in DecoratorKinds)
        IN  /\ last.onInsert = Len(blocks)
            /\ Len(madeBlocks) = Len(blocks)
            /\ \A i \in 1..Len(blocks) :
                  /\ madeBlocks[i].node = blocks[i]
                  /\ madeBlocks[i].created
                  /\ GetMatch(blocks[i].type, madeBlocks[i].matched) # NoMatch
            /\ blocks = <<>> => last.onInsert = 0

\* A text with two context placeholders and a last-run placeholder was set:
\* three blocks were made and onInsert was called three times.
C32_Witness ==
    /\ last.command = SET_ROOT_TEXT
    /\ last.input = CONTEXT_PLACEHOLDER_TEXT \o CONTEXT_PLACEHOLDER_TEXT
                       \o LAST_RUN_PLACEHOLDER_TEXT
    /\ GetNodeCount(doc[last.editor], ContextBlockNode) = 2
    /\ GetNodeCount(doc[last.editor], LastRunBlockNode) = 1
    /\ last.onInsert = 3

----------------------------------------------------------------------------
(* Properties of the delayed escape *)

----------------------------------------------------------------------------
(* Properties of the transform loop *)

\* The offsets of a text at which the token of one of the kinds starts.
OccurrencesIn(text, kinds) ==
    {at \in 0..Len(text) :
        \E kind \in kinds :
           IF kind \in FixedKinds
              THEN StartsWithAt(text, PlaceholderText(kind), at)
           ELSE IF kind = HITLInputNode
              THEN TokenEndAt(text, at, HITL_PREFIX, HITL_SUFFIX) # -1
              ELSE TokenEndAt(text, at, VAR_OPEN, VAR_CLOSE) # -1}

\* No transform has work left on a document.
LoopDone(e) ==
    \A p \in 1..Len(doc[e]) : \A j \in 1..Len(doc[e][p]) :
       ~HasMatch(doc[e][p][j], props[e].nodes)

\* C35: the loop of the transforms terminates, for every text and every set
\* of registered kinds: it reaches a document in which no registered matcher
\* matches any plain text run, and stays there.  On the way it makes at most
\* as many replacements as the text holds placeholder occurrences of the
\* registered kinds; every node it made stays in the document as it was
\* made and no transform has work on it; the root text is the text it
\* started from.  With all kinds registered the document it ends in is the
\* one the transforms give in one go.
C35_TransformLoopTerminates ==
    /\ [](\A e \in BlurEditors :
             LET blocks == SelectSeq(Flatten(doc[e]),
                                     LAMBDA node : node.type # CustomTextNode)
             IN  /\ Len(last.made)
                       <= Cardinality(OccurrencesIn(props[e].value,
                                                    props[e].nodes))
                 /\ Len(blocks) = Len(last.made)
                 /\ \A i \in 1..Len(last.made) :
                       /\ \E j \in 1..Len(blocks) : blocks[j] = last.made[i].node
                       /\ ~HasMatch(last.made[i].node, props[e].nodes)
                 /\ RootText(doc[e]) = props[e].value
                 /\ (LoopDone(e) /\ props[e].nodes = Kinds)
                    => doc[e] = Transformed(last.before, props[e].data))
    /\ <>[](\A e \in BlurEditors : LoopDone(e))

\* The loop has come to its end on a text with a context placeholder and a
\* variable, with the transforms of all kinds registered,
\* after two replacements.
C35_Witness ==
    /\ last.command = "transform"
    /\ props[last.editor].nodes = Kinds
    /\ props[last.editor].value = CONTEXT_PLACEHOLDER_TEXT \o VariableToken
    /\ Len(last.made) = 2
    /\ LoopDone(last.editor)
    /\ Len(doc[last.editor][1]) = 2
    /\ doc[last.editor][1][1].type = ContextBlockNode
    /\ doc[last.editor][1][2].type = VariableValueBlockNode

----------------------------------------------------------------------------
(* Properties of insert followed by delete *)

\* C36: the insert command of a kind, a click on the node it made and then
\* Backspace or Delete bring the document back: the root text is the text
\* before the insert and the document holds as many nodes of every kind as
\* before.  The insert calls onInsert once and onDelete not at all, the
\* click calls neither, the key calls onDelete once and onInsert not at all
\* and removes one node: onInsert and onDelete are called exactly once each.
C36_InsertThenDeleteRestores ==
    \A e \in BlurEditors :
       LET prior == LoadedDoc(props[e].value, props[e].data)
           more(kind) == IF kind = last.kind THEN 1 ELSE 0
       IN  /\ last.command \in InsertCommands
              => /\ last.handled
                 /\ last.onInsert = 1
                 /\ last.onDelete = 0
                 /\ last.before = prior
                 /\ \A kind \in Kinds :
                       GetNodeCount(doc[e], kind)
                          = GetNodeCount(prior, kind) + more(kind)
           /\ last.command = "click"
              => /\ last.onInsert = 0
                 /\ last.onDelete = 0
                 /\ IsNodeSelection(e)
           /\ last.command \in {KEY_DELETE_COMMAND, KEY_BACKSPACE_COMMAND}
              => /\ last.onInsert = 0
                 /\ last.onDelete = 1
                 /\ last.removed = 1
                 /\ last.handled
                 /\ RootText(doc[e]) = props[e].value
                 /\ RootText(doc[e]) = RootText(prior)
                 /\ \A kind \in Kinds \cup {CustomTextNode} :
                       GetNodeCount(doc[e], kind) = GetNodeCount(prior, kind)

\* A context block was inserted one character into the text "ab" of a
\* document, selected and removed with Backspace: the text is "ab" again, in
\* one run.
C36_Witness ==
    \E e \in BlurEditors :
       /\ last.command = KEY_BACKSPACE_COMMAND
       /\ last.kind = ContextBlockNode
       /\ props[e].value = <<"a", "b">>
       /\ Len(last.before[1]) = 3
       /\ last.onDelete = 1
       /\ doc[e] = <<<<TextNode(<<"a", "b">>)>>>>

----------------------------------------------------------------------------
(* Properties of two editors on one page *)

----------------------------------------------------------------------------
(* Properties of the two subscriptions of UpdateBlock *)

\* C38: an event addressed to an editor is applied exactly once although
\* UpdateBlock holds two subscriptions.  Of the two callbacks the emitter
\* calls, one acts, the one whose type is the event's.  One quick insert
\* event puts a single "/" into the root text, at the caret, and dispatches
\* the clear command once; one update value event replaces the document by
\* the payload's and inserts nothing.  The other editors keep their documents
\* and selections.
C38_EventAppliedOnce ==
    [][(/\ last'.command \in BusEvents
        /\ last'.editor \in Editors
        /\ UpdateBlock \in mounted[last'.editor])
       => LET e == last'.editor
              text == RootText(doc[e])
              at == last'.at
          IN  /\ Len(last'.invoked) = 1
              /\ Subscriptions[last'.invoked[1]] = last'.command
              /\ last'.before = doc[e]
              /\ last'.command = PROMPT_EDITOR_INSERT_QUICKLY
                    => /\ RootText(doc'[e])
                             = SubSeq(text, 1, at) \o <<"/">>
                               \o SubSeq(text, at + 1, Len(text))
                       /\ QuickCount(doc'[e]) = QuickCount(doc[e]) + 1
                       /\ last'.clear = 1
              /\ last'.command = PROMPT_EDITOR_UPDATE_VALUE_BY_EVENT_EMITTER
                    => /\ doc'[e] = UpdatedValue(last'.input, props[e].data)
                       /\ RootText(doc'[e]) = last'.input
                       /\ sel'[e] = NoSelection
                       /\ last'.clear = 0
              /\ \A o \in Editors \ {e} :
                    doc'[o] = doc[o] /\ sel'[o] = sel[o]]_vars

\* A quick insert event for the first editor came after an update value event
\* had set its text to "a": the text is "a/", with one "/", the second
\* subscription alone acted, and the second editor, whose value an event of
\* its own had set, has no "/".
C38_Witness ==
    /\ last.command = PROMPT_EDITOR_INSERT_QUICKLY
    /\ last.editor = "instance-1"
    /\ last.invoked = <<2>>
    /\ RootText(last.before) = <<"a">>
    /\ RootText(doc["instance-1"]) = <<"a", "/">>
    /\ RootText(doc["instance-2"]) = CONTEXT_PLACEHOLDER_TEXT

====
